---- MODULE Spec2Model ----
(***************************************************************************)
(* RobotArmDevice (drivers/robot_arm_driver.py) on top of DeviceDriver     *)
(* (drivers/base.py): the serial gate, the command/response exchange, the  *)
(* motion operations, the program run loop and the device state machine.   *)
(*                                                                         *)
(* The driver runs on one asyncio event loop.  Code between two awaits is  *)
(* one atomic step; every action below is such a step of one task: an      *)
(* upstream caller executing one driver method, or a _run_program task.    *)
(*                                                                         *)
(* Numbers.  Coordinates are integers counted in thirds of a hundredth of  *)
(* a unit, so the two-decimal formatting of a move command (":.2f") is a   *)
(* rounding to the nearest multiple of three and never meets a tie.        *)
(***************************************************************************)
EXTENDS Integers, Sequences, FiniteSets, TLC

Axes == {"X", "Y", "Z"}

NoTask == <<"none", 0>>
CallerTask(c) == <<"caller", c>>
RunTask(r) == <<"run", r>>

(***************************************************************************)
(* Bounds of the model.                                                    *)
(***************************************************************************)
MaxLines == 2
MaxRuns == 3
MaxCoord == 2

Callers == {1, 2}
Runs == 1..MaxRuns
Operator == {1}
Sessions == {1, 2}

VARIABLES
    state,                \* _status.state
    connected,            \* _connected
    serial_open,          \* _serial is set and is_open
    use_grbl,             \* _use_grbl
    error_message,        \* _status.error_message
    position,             \* _status.position
    work_position,        \* _status.work_position
    joint_position,       \* _joint_position
    cartesian_position,   \* _cartesian_position
    endstop_blocked,      \* _endstop_blocked: "none" for an axis without an entry
    status_endstop_blocked, \* _status.endstop_blocked
    endstop_states,       \* _status.endstop_states
    axis_map,             \* _axis_map
    axis_map_reverse,     \* _axis_map_reverse
    axis_invert,          \* _axis_invert
    axis_scale,           \* _axis_scale
    axis_limits,          \* _axis_limits
    gcode_lines,          \* _gcode_lines
    current_line_index,   \* _current_line_index
    running,              \* _running
    paused,               \* _paused
    run_task,             \* _run_task: 0 for None, else the task's number
    status_progress,      \* _status.progress
    status_current_line,  \* _status.current_line
    serial_lock,          \* _serial_lock: its holder and its FIFO of waiters
    inflight,             \* commands written whose response is neither read nor expired
    call,                 \* the driver method each upstream caller is executing
    rtask,                \* the _run_program tasks created so far
    status_polling,       \* _status_polling
    poll_task,            \* _poll_task: "none" for None, else where that task stands
    diagnostics_running,  \* _diagnostics_running
    diag,                 \* the diagnostic requests of the bridge server
    gripper_state,        \* _gripper_state
    sucker_state,         \* _sucker_state: "on" for True, "off" for False
    status_gripper_state, \* _status.gripper_state, "none" for None
    status_sucker_state,  \* _status.sucker_state, "none" for None
    position_updates,     \* calls of on_position_update made for the latest response read
    on_error,             \* the message of the latest on_error call
    status_total_lines,   \* _status.total_lines
    taught_positions      \* _taught_positions

cfgVars == <<axis_map, axis_map_reverse, axis_invert, axis_scale, axis_limits>>
posVars == <<position, work_position, joint_position, cartesian_position,
             position_updates>>
endVars == <<endstop_blocked, status_endstop_blocked, endstop_states>>
loadVars == <<gcode_lines, status_total_lines, taught_positions>>
progVars == <<loadVars, current_line_index, running, paused, run_task,
              status_progress, status_current_line>>
gateVars == <<serial_lock, inflight>>
linkVars == <<connected, serial_open, use_grbl>>
errVars == <<error_message, on_error>>
pollVars == <<status_polling, poll_task, diagnostics_running, diag>>
toolVars == <<gripper_state, sucker_state, status_gripper_state, status_sucker_state>>
bgVars == <<pollVars, toolVars>>
vars == <<state, errVars, linkVars, bgVars, posVars, endVars, cfgVars, progVars,
          gateVars, call, rtask>>

(***************************************************************************)
(* Response lines.  A response is the sequence of non-empty lines that     *)
(* _read_response_unlocked collected; the empty sequence is a timeout.     *)
(***************************************************************************)
OkLine == [k |-> "ok"]
InfoLine == [k |-> "info"]
ErrLine(unrec, grbl) == [k |-> "err", unrec |-> unrec, grbl |-> grbl]
ErrLimit == ErrLine(FALSE, FALSE)
ErrUnrec == ErrLine(TRUE, FALSE)
ErrGrbl == ErrLine(FALSE, TRUE)
MoveLine(x, y, z) == [k |-> "move", x |-> x, y |-> y, z |-> z]
EndstopLine(x, y, z) == [k |-> "endstop", X |-> x, Y |-> y, Z |-> z]

Timeout == <<>>

\* a matcher that knows only the "error:N" form
OnlyNumberedError(resp) == Len(resp) = 1 /\ resp[1].k = "err" /\ resp[1].grbl

\* ERROR_PATTERN.search(response): "^ERROR:\s*(.+)$" without re.MULTILINE and
\* case-insensitive: it matches only a response that is one single error line
\* ("ERROR: ..." or "error:N").
ERROR_PATTERN(resp) == Len(resp) = 1 /\ resp[1].k = "err"

\* GRBL_ERROR_PATTERN.search(response): "^error:(\d+)$", one single "error:N" line.
GRBL_ERROR_PATTERN(resp) == Len(resp) = 1 /\ resp[1].k = "err" /\ resp[1].grbl

\* "COMMAND NOT RECOGNIZED" in response
NotRecognized(resp) == \E i \in 1..Len(resp) : resp[i].k = "err" /\ resp[i].unrec

KindAt(resp, kind) == {i \in 1..Len(resp) : resp[i].k = kind}
FirstOf(resp, kind) == CHOOSE i \in KindAt(resp, kind) : \A j \in KindAt(resp, kind) : i <= j

(***************************************************************************)
(* DeviceDriver._set_state / _set_error: the values they leave.            *)
(***************************************************************************)
\* None in _status.endstop_blocked
NoneBlocked == [null |-> TRUE, map |-> [a \in Axes |-> "none"]]

NoError == [src |-> "none"]
ErrorMsg(src, detail) == [src |-> src, detail |-> detail]

\* _set_state(new): the state after the call
SetState(new) == new

\* _set_error(message): the state after the call
SetErrorState == SetState("alarm")

\* a _set_error that keeps the message to itself
SetErrorNoCallback(msg) == error_message' = msg /\ UNCHANGED on_error

\* _set_error(message): the message is kept and handed to on_error
SetError(msg) == error_message' = msg /\ on_error' = msg

(***************************************************************************)
(* The serial gate (asyncio.Lock) and the wire.                            *)
(***************************************************************************)
FreeLock == [holder |-> NoTask, waiters |-> <<>>]

\* asyncio.Lock.acquire takes the lock at once only when it is unlocked and
\* nobody waits; otherwise the caller queues behind the earlier waiters.
LockFree(lk) == lk.holder = NoTask /\ lk.waiters = <<>>

EnterLock(lk, t) ==
    IF LockFree(lk) THEN [lk EXCEPT !.holder = t]
    ELSE [lk EXCEPT !.waiters = Append(@, t)]

EnterPc(lk) == IF LockFree(lk) THEN "read" ELSE "lockwait"

\* the write of _send_command, done once the gate is held
Written(inf, t, cmd) == inf \cup {[owner |-> t, cmd |-> cmd, live |-> TRUE]}

EnterWire(lk, inf, t, cmd) == IF LockFree(lk) THEN Written(inf, t, cmd) ELSE inf

\* the response of t's exchange has been read (or its timeout has elapsed)
Consumed(inf, t) == {e \in inf : e.owner # t}

\* t is cancelled in the middle of its exchange: the command is on the wire and
\* nobody reads its response (abandoned exchanges are not told apart)
Orphan == [owner |-> NoTask, cmd |-> [g |-> "none", words |-> <<>>], live |-> FALSE]
Abandoned(inf, t) == {IF e.owner = t THEN Orphan ELSE e : e \in inf}

ReleaseLock(lk) == [lk EXCEPT !.holder = NoTask]

RemoveWaiter(lk, t) == [lk EXCEPT !.waiters = SelectSeq(@, LAMBDA w : w # t)]

(***************************************************************************)
(* Axis transform pipeline.  Outgoing values are exact fractions <<n, d>>  *)
(* (the division by the scale factor happens before the text formatting);  *)
(* incoming values are integers.                                           *)
(***************************************************************************)
IdentityMap == [a \in Axes |-> a]
NoInvert == [a \in Axes |-> FALSE]
NoScale == [a \in Axes |-> 0]
NoLimits == [a \in Axes |-> [set |-> FALSE, lo |-> 0, hi |-> 0]]

Frac(n) == <<n, 1>>

\* _apply_invert
ApplyInvert(v) == [a \in Axes |-> IF axis_invert[a] THEN <<-v[a][1], v[a][2]>> ELSE v[a]]

\* _degrees_to_firmware: x / scale, or x when the scale is absent or 0
DegreesToFirmware(v) ==
    [a \in Axes |-> IF axis_scale[a] # 0 THEN <<v[a][1], v[a][2] * axis_scale[a]>> ELSE v[a]]

\* _firmware_to_degrees: x * scale, or x when the scale is absent or 0
FirmwareToDegrees(v) ==
    [a \in Axes |-> IF axis_scale[a] # 0 THEN <<v[a][1] * axis_scale[a], v[a][2]>> ELSE v[a]]

\* a mapping that looks the firmware letter up in the forward map
MapOutgoingByForwardMap(vq) ==
    LET logical == ApplyInvert(DegreesToFirmware(vq))
    IN  [f \in Axes |-> logical[axis_map[f]]]

\* _map_outgoing on exact values: scale, invert, then firmware letter F carries
\* logical axis _axis_map_reverse[F]
MapOutgoingQ(vq) ==
    LET logical == ApplyInvert(DegreesToFirmware(vq))
    IN  [f \in Axes |-> logical[axis_map_reverse[f]]]

\* _map_outgoing of whole ticks
MapOutgoing(v) == MapOutgoingQ([a \in Axes |-> Frac(v[a])])

\* _map_incoming on exact values: logical axis L reads firmware letter
\* _axis_map[L], then un-invert, then unscale
MapIncomingQ(fwq) ==
    FirmwareToDegrees(ApplyInvert([l \in Axes |-> fwq[axis_map[l]]]))

\* _map_incoming of whole ticks
MapIncoming(fw) ==
    LET log == MapIncomingQ([a \in Axes |-> Frac(fw[a])])
    IN  [l \in Axes |-> log[l][1]]

\* "{v:.2f}": the nearest multiple of a hundredth (three ticks)
Fmt2(q) == 3 * ((2 * q[1] + 3 * q[2]) \div (6 * q[2]))

\* a clamp that knows only the lower bound
ClampAxisLowOnly(a, x) ==
    IF axis_limits[a].set /\ x < axis_limits[a].lo THEN axis_limits[a].lo ELSE x

\* _clamp_to_limits
ClampAxis(a, x) ==
    IF ~axis_limits[a].set THEN x
    ELSE IF x < axis_limits[a].lo THEN axis_limits[a].lo
    ELSE IF x > axis_limits[a].hi THEN axis_limits[a].hi
    ELSE x

ClampToLimits(v) ==
    [v |-> [a \in Axes |-> ClampAxis(a, v[a])],
     clamped |-> {a \in Axes : ClampAxis(a, v[a]) # v[a]}]

\* max(1, min(100, int(feed_rate)))
ClampSpeed(f) == IF f < 1 THEN 1 ELSE IF f > 100 THEN 100 ELSE f

\* f"G1 X{fw_x:.2f} Y{fw_y:.2f} Z{fw_z:.2f} F{speed}"
MoveCmd(fw, speed) == [g |-> "G1", words |-> [a \in Axes |-> Fmt2(fw[a])], f |-> speed]

PlainCmd(g) == [g |-> g, words |-> <<>>]

\* _remap_gcode on a command with at most one word per axis: the word of
\* logical axis L is rewritten to the firmware letter _axis_map[L]
RemapGcode(cmd) ==
    IF axis_map = IdentityMap \/ DOMAIN cmd.words = {} THEN cmd
    ELSE [cmd EXCEPT !.words =
            [f \in {axis_map[l] : l \in DOMAIN cmd.words} |->
                cmd.words[CHOOSE l \in DOMAIN cmd.words : axis_map[l] = f]]]

\* _parse_move_response: the position after a response has been read
HasMove(resp) == KindAt(resp, "move") # {}

ParsedMove(resp) ==
    LET m == resp[FirstOf(resp, "move")]
    IN  MapIncoming([a \in Axes |-> IF a = "X" THEN m.x ELSE IF a = "Y" THEN m.y ELSE m.z])

ParseMoveResponse(resp, pos) == IF HasMove(resp) THEN ParsedMove(resp) ELSE pos

\* a callback that is called for every response
CallbackOnEveryResponse(resp) == 1

\* _parse_move_response calls on_position_update once when the pattern matched,
\* and not otherwise: the number of calls it makes
PositionCallback(resp) == IF HasMove(resp) THEN 1 ELSE 0

(***************************************************************************)
(* Program run loop: _run_program, one task per run().                     *)
(*   pc: none (not created), new (created, not yet run), pausewait (the    *)
(*   sleep of the pause loop), lockwait / read (inside _send_command),     *)
(*   settle (the sleep after a line), done, cancelled, failed (an          *)
(*   exception left the task).                                             *)
(* The fields from, nsent and stop_seen record, while the task lives, the  *)
(* from_line it was created with, how many lines it has picked and whether *)
(* stop() was called since; the code does not read them.  A finished task  *)
(* keeps only how it ended.                                                *)
(***************************************************************************)
RunRecord(pc, k) ==
    [pc |-> pc, cancel |-> FALSE, from |-> k, total |-> 0, line |-> 0,
     cmd |-> PlainCmd("none"), nsent |-> 0, stop_seen |-> FALSE]

NoRun == RunRecord("none", 0)
NewRun(k) == RunRecord("new", k)

\* asyncio.Task.done()
TaskDone(r) == rtask[r].pc \in {"done", "cancelled", "failed"}
Alive(r) == rtask[r].pc \notin {"none", "done", "cancelled", "failed"}

\* (current_line_index / total_lines) * 100, in whole percent
Progress(i, t) == IF t > 0 THEN (i * 100) \div t ELSE 100

\* the program line at 0-based index i
LineCmd(i) == RemapGcode(gcode_lines[i + 1])

\* _run_program after its while loop (lines 1414-1422)
RunFinish(r, rec, idx, prog) ==
    LET atEnd == idx >= rec.total
        prog2 == IF atEnd THEN 100 ELSE prog
    IN  /\ rtask' = [rtask EXCEPT ![r] = RunRecord("done", 0)]
        /\ status_progress' = prog2
        /\ running' = FALSE
        /\ run_task' = 0
        /\ state' = SetState("idle")

\* _run_program lines 1379-1381: pick the line and enter _send_command
RunSendLine(r, rec, idx, prog, st) ==
    IF idx \notin 0..(Len(gcode_lines) - 1) \/ ~serial_open
    THEN /\ rtask' = [rtask EXCEPT ![r] = RunRecord("failed", 0)]
         /\ state' = st
         /\ status_progress' = prog
         /\ UNCHANGED <<gateVars, running, run_task>>
    ELSE /\ rtask' = [rtask EXCEPT ![r] =
                [rec EXCEPT !.pc = EnterPc(serial_lock),
                            !.line = idx,
                            !.cmd = LineCmd(idx),
                            !.nsent = @ + 1]]
         /\ serial_lock' = EnterLock(serial_lock, RunTask(r))
         /\ inflight' = EnterWire(serial_lock, inflight, RunTask(r), LineCmd(idx))
         /\ state' = st
         /\ status_progress' = prog
         /\ UNCHANGED <<running, run_task>>

\* _run_program from the top of its while loop (lines 1368-1381) to the next await
RunLoopTop(r, rec, idx, prog, st) ==
    IF running /\ idx < rec.total
    THEN IF paused
         THEN /\ rtask' = [rtask EXCEPT ![r] = [rec EXCEPT !.pc = "pausewait"]]
              /\ state' = st
              /\ status_progress' = prog
              /\ UNCHANGED <<gateVars, running, run_task>>
         ELSE RunSendLine(r, rec, idx, prog, st)
    ELSE RunFinish(r, rec, idx, prog) /\ UNCHANGED gateVars

\* first step of the task (lines 1365-1366)
RunStart(r) ==
    /\ rtask[r].pc = "new" /\ ~rtask[r].cancel
    /\ RunLoopTop(r, [rtask[r] EXCEPT !.total = Len(gcode_lines)],
                  current_line_index, status_progress, SetState("running"))
    /\ UNCHANGED <<errVars, linkVars, bgVars, posVars, endVars, cfgVars, loadVars,
                   current_line_index, paused, status_current_line, call>>

\* the sleep of the pause loop has elapsed (lines 1370-1376)
RunPauseWake(r) ==
    /\ rtask[r].pc = "pausewait" /\ ~rtask[r].cancel
    /\ ~running \/ ~paused
    /\ IF ~running
       THEN RunFinish(r, rtask[r], current_line_index, status_progress)
            /\ UNCHANGED gateVars
       ELSE RunSendLine(r, rtask[r], current_line_index, status_progress, state)
    /\ UNCHANGED <<errVars, linkVars, bgVars, posVars, endVars, cfgVars, loadVars,
                   current_line_index, paused, status_current_line, call>>

\* the gate is handed to the waiting task, which writes its line
RunGate(r) ==
    /\ rtask[r].pc = "lockwait" /\ ~rtask[r].cancel
    /\ serial_lock.holder = NoTask
    /\ serial_lock.waiters # <<>> /\ Head(serial_lock.waiters) = RunTask(r)
    /\ serial_lock' = [holder |-> RunTask(r), waiters |-> Tail(serial_lock.waiters)]
    /\ inflight' = Written(inflight, RunTask(r), rtask[r].cmd)
    /\ rtask' = [rtask EXCEPT ![r].pc = "read"]
    /\ UNCHANGED <<state, errVars, linkVars, bgVars, posVars, endVars, cfgVars,
                   progVars, call>>

\* the response of the line has been read (lines 1381-1397)
RunResponse(r, resp) ==
    /\ rtask[r].pc = "read" /\ ~rtask[r].cancel
    /\ serial_lock' = ReleaseLock(serial_lock)
    /\ inflight' = Consumed(inflight, RunTask(r))
    /\ position' = ParseMoveResponse(resp, position)
    /\ work_position' = ParseMoveResponse(resp, work_position)
    /\ position_updates' = PositionCallback(resp)
    /\ IF ERROR_PATTERN(resp) /\ ~NotRecognized(resp)
       THEN /\ SetError(ErrorMsg("G-code hiba",
                               [line |-> current_line_index + 1, text |-> resp]))
            /\ RunFinish(r, rtask[r], current_line_index, status_progress)
       ELSE /\ rtask' = [rtask EXCEPT ![r].pc = "settle"]
            /\ UNCHANGED <<state, errVars, status_progress, running, run_task>>
    /\ UNCHANGED <<linkVars, bgVars, joint_position, cartesian_position, endVars, cfgVars,
                   loadVars, current_line_index, paused, status_current_line, call>>

\* the sleep after the line has elapsed (lines 1397-1412), then the loop top
RunSettle(r) ==
    /\ rtask[r].pc = "settle" /\ ~rtask[r].cancel
    /\ LET idx == current_line_index + 1
           prog == Progress(idx, rtask[r].total)
       IN  /\ current_line_index' = idx
           /\ status_current_line' = idx
           /\ RunLoopTop(r, rtask[r], idx, prog, state)
    /\ UNCHANGED <<errVars, linkVars, bgVars, posVars, endVars, cfgVars, loadVars,
                   paused, call>>

\* Task.cancel() takes effect at the await the task is suspended in: the
\* CancelledError leaves "async with self._serial_lock", which releases the gate
RunCancelled(r) ==
    /\ Alive(r) /\ rtask[r].cancel
    /\ rtask' = [rtask EXCEPT ![r] = RunRecord("cancelled", 0)]
    /\ serial_lock' = IF rtask[r].pc = "read" THEN ReleaseLock(serial_lock)
                      ELSE RemoveWaiter(serial_lock, RunTask(r))
    /\ inflight' = IF rtask[r].pc = "read" THEN Abandoned(inflight, RunTask(r))
                   ELSE inflight
    /\ UNCHANGED <<state, errVars, linkVars, bgVars, posVars, endVars, cfgVars,
                   progVars, call>>

\* the response timeout of an exchange nobody reads any more has elapsed
ResponseExpires ==
    /\ \E e \in inflight : ~e.live /\ inflight' = inflight \ {e}
    /\ UNCHANGED <<state, errVars, linkVars, bgVars, posVars, endVars, cfgVars,
                   progVars, serial_lock, call, rtask>>

(***************************************************************************)
(* Upstream callers.  A caller is idle or inside one driver method; pc is  *)
(* the await it is suspended in.  ret and resp keep what the method        *)
(* returned and the response it decided on until the caller takes them.    *)
(***************************************************************************)
IdleCall == [op |-> "none", pc |-> "idle"]
CallIdle(c) == call[c].pc = "idle"

\* run(): the task creation at its end (lines 1355-1361)
RunCreate(k) ==
    /\ \E r \in Runs : rtask[r].pc = "none"
    /\ LET r == CHOOSE r \in Runs : rtask[r].pc = "none" /\ \A q \in Runs : q < r => rtask[q].pc # "none"
       IN  /\ rtask' = [rtask EXCEPT ![r] = NewRun(k)]
           /\ run_task' = r
    /\ current_line_index' = k
    /\ running' = TRUE
    /\ paused' = FALSE

\* run(from_line=k), lines 1343-1361, up to its await or to its return
Run(c, k) ==
    /\ CallIdle(c)
    /\ gcode_lines # <<>>
    /\ IF run_task # 0 /\ ~TaskDone(run_task)
       THEN /\ rtask' = [rtask EXCEPT ![run_task].cancel = TRUE]
            /\ call' = [call EXCEPT ![c] = [op |-> "run", pc |-> "await_run",
                                            target |-> run_task, from |-> k]]
            /\ UNCHANGED <<current_line_index, running, paused, run_task>>
       ELSE /\ RunCreate(k)
            /\ UNCHANGED call
    /\ UNCHANGED <<state, errVars, linkVars, bgVars, posVars, endVars, cfgVars, loadVars,
                   status_progress, status_current_line, gateVars>>

\* run(): "await self._run_task" has returned (the cancelled task is done)
RunAwaited(c) ==
    /\ call[c].pc = "await_run"
    /\ TaskDone(call[c].target)
    /\ RunCreate(call[c].from)
    /\ call' = [call EXCEPT ![c] = IdleCall]
    /\ UNCHANGED <<state, errVars, linkVars, bgVars, posVars, endVars, cfgVars, loadVars,
                   status_progress, status_current_line, gateVars>>

\* pause(), lines 1424-1428
Pause(c) ==
    /\ CallIdle(c)
    /\ paused' = TRUE
    /\ state' = SetState("paused")
    /\ UNCHANGED <<errVars, linkVars, bgVars, posVars, endVars, cfgVars, loadVars,
                   current_line_index, running, run_task, status_progress,
                   status_current_line, gateVars, call, rtask>>

\* resume(), lines 1430-1434
Resume(c) ==
    /\ CallIdle(c)
    /\ paused' = FALSE
    /\ state' = SetState("running")
    /\ UNCHANGED <<errVars, linkVars, bgVars, posVars, endVars, cfgVars, loadVars,
                   current_line_index, running, run_task, status_progress,
                   status_current_line, gateVars, call, rtask>>

\* stop(), lines 1436-1448
Stop(c) ==
    /\ CallIdle(c)
    /\ running' = FALSE
    /\ paused' = FALSE
    /\ rtask' = [r \in Runs |->
                    IF Alive(r)
                    THEN [rtask[r] EXCEPT !.stop_seen = TRUE,
                                          !.cancel = @ \/ r = run_task]
                    ELSE rtask[r]]
    /\ state' = SetState("idle")
    /\ call' = [k \in Callers |->
                   IF call[k].op = "teach_play" /\ call[k].pc # "ret"
                   THEN [call[k] EXCEPT !.stop_seen = TRUE] ELSE call[k]]
    /\ UNCHANGED <<errVars, linkVars, bgVars, posVars, endVars, cfgVars, loadVars,
                   current_line_index, run_task, status_progress, status_current_line,
                   gateVars>>

\* reset(), lines 1450-1458
Reset(c) ==
    /\ CallIdle(c)
    /\ error_message' = NoError
    /\ state' = SetState("idle")
    /\ UNCHANGED on_error
    /\ UNCHANGED <<linkVars, bgVars, posVars, endVars, cfgVars, progVars, gateVars, call, rtask>>

(***************************************************************************)
(* Exchanges of the callers: _send_command entered from a driver method.   *)
(***************************************************************************)
\* _send_command up to its first suspension: behind the gate, or written and reading.
\* lk and inf are the gate and the wire as the caller finds them.
EnterSend(c, rec, cmd, lk, inf) ==
    /\ call' = [call EXCEPT ![c] = [rec EXCEPT !.pc = EnterPc(lk), !.cmd = cmd]]
    /\ serial_lock' = EnterLock(lk, CallerTask(c))
    /\ inflight' = EnterWire(lk, inf, CallerTask(c), cmd)

\* the method returns val; resp is the response it decided on
Ret(c, op, val, resp) ==
    call' = [call EXCEPT ![c] = [op |-> op, pc |-> "ret", ret |-> val, resp |-> resp]]

\* the end of _send_command with nothing sent after it
LeaveSend(c) ==
    /\ serial_lock' = ReleaseLock(serial_lock)
    /\ inflight' = Consumed(inflight, CallerTask(c))

\* _read_response_unlocked, lines 597-601: the position follows a move response
ReadResponse(resp) ==
    /\ position' = ParseMoveResponse(resp, position)
    /\ work_position' = ParseMoveResponse(resp, work_position)
    /\ position_updates' = PositionCallback(resp)

Reading(c, op, stage) ==
    call[c].pc = "read" /\ call[c].op = op /\ call[c].stage = stage

\* the gate is handed to the waiting caller, which writes its command
CallGate(c) ==
    /\ call[c].pc = "lockwait"
    /\ serial_lock.holder = NoTask
    /\ serial_lock.waiters # <<>> /\ Head(serial_lock.waiters) = CallerTask(c)
    /\ serial_lock' = [holder |-> CallerTask(c), waiters |-> Tail(serial_lock.waiters)]
    /\ inflight' = Written(inflight, CallerTask(c), call[c].cmd)
    /\ call' = [call EXCEPT ![c].pc = "read"]
    /\ UNCHANGED <<state, errVars, linkVars, bgVars, posVars, endVars, cfgVars,
                   progVars, rtask>>

\* the caller takes the returned value
Return(c) ==
    /\ call[c].pc = "ret"
    /\ call' = [call EXCEPT ![c] = IdleCall]
    /\ UNCHANGED <<state, errVars, linkVars, bgVars, posVars, endVars, cfgVars,
                   progVars, gateVars, rtask>>

NewCall(op, stage) == [op |-> op, stage |-> stage, pc |-> "idle", cmd |-> PlainCmd("none")]

HomeCmd == [g |-> "G1", words |-> [a \in Axes |-> 0], f |-> 50]

\* home(), lines 766-769, up to the await of its exchange
Home(c) ==
    /\ CallIdle(c)
    /\ IF serial_open
       THEN /\ EnterSend(c, NewCall("home", "move"), HomeCmd, serial_lock, inflight)
            /\ state' = SetState("homing")
            /\ UNCHANGED errVars
       ELSE /\ Ret(c, "home", FALSE, Timeout)
            /\ state' = SetErrorState
            /\ SetError(ErrorMsg("Homing hiba", "Nincs kapcsolat"))
            /\ UNCHANGED gateVars
    /\ UNCHANGED <<linkVars, bgVars, posVars, endVars, cfgVars, progVars, rtask>>

\* home(), lines 769-777, after its exchange
HomeResponse(c, resp) ==
    /\ Reading(c, "home", "move")
    /\ LeaveSend(c)
    /\ ReadResponse(resp)
    /\ IF ERROR_PATTERN(resp)
       THEN /\ state' = SetErrorState
            /\ SetError(ErrorMsg("Homing hiba", resp))
            /\ Ret(c, "home", FALSE, resp)
       ELSE /\ state' = SetState("idle")
            /\ UNCHANGED errVars
            /\ Ret(c, "home", TRUE, resp)
    /\ UNCHANGED <<linkVars, bgVars, joint_position, cartesian_position, endVars, cfgVars,
                   progVars, rtask>>

(***************************************************************************)
(* Playback specification: a connected legacy device with a program of     *)
(* one to MaxLines lines loaded (the state connect and load_file leave),   *)
(* two upstream callers issuing run, pause, resume, stop and reset.        *)
(***************************************************************************)
Program(n) == [i \in 1..n |-> [g |-> "G1", words |-> [a \in {"X"} |-> i]]]

\* the fields connect() leaves on a legacy device, default configuration
Connected ==
    /\ state = "idle"
    /\ connected = TRUE
    /\ serial_open = TRUE
    /\ error_message = NoError
    /\ position = [a \in Axes |-> 0]
    /\ work_position = [a \in Axes |-> 0]
    /\ joint_position = [J1 |-> 0, J2 |-> 0, J3 |-> 0]
    /\ cartesian_position = [x |-> 0, y |-> 0, z |-> 0]
    /\ endstop_blocked = [a \in Axes |-> "none"]
    /\ status_endstop_blocked = NoneBlocked
    /\ endstop_states = [a \in Axes |-> FALSE]
    /\ serial_lock = FreeLock
    /\ inflight = {}
    /\ running = FALSE
    /\ paused = FALSE
    /\ run_task = 0
    /\ rtask = [r \in Runs |-> NoRun]
    /\ status_polling = TRUE
    /\ poll_task = "new"
    /\ diagnostics_running = FALSE
    /\ diag = [s \in Sessions |-> "idle"]
    /\ gripper_state = "unknown"
    /\ sucker_state = "off"
    /\ status_gripper_state = "unknown"
    /\ status_sucker_state = "off"
    /\ position_updates = 0
    /\ on_error = NoError

\* the fields load_file() leaves
Loaded(n) ==
    /\ gcode_lines = Program(n)
    /\ status_total_lines = n
    /\ taught_positions = <<>>
    /\ current_line_index = 0
    /\ status_progress = 0
    /\ status_current_line = 0

DefaultConfig ==
    /\ axis_map = IdentityMap
    /\ axis_map_reverse = IdentityMap
    /\ axis_invert = NoInvert
    /\ axis_scale = NoScale
    /\ axis_limits = NoLimits

Init ==
    /\ Connected
    /\ use_grbl = FALSE
    /\ DefaultConfig
    /\ \E n \in 1..MaxLines : Loaded(n)
    /\ call = [c \in Callers |-> IdleCall]

\* what the firmware may answer to a program line or to the homing move
PlayResponses == {Timeout, <<InfoLine>>, <<ErrLimit>>, <<ErrUnrec>>}

Next ==
    \/ \E c \in Callers, k \in 0..MaxLines : k <= Len(gcode_lines) /\ Run(c, k)
    \/ \E c \in Callers : RunAwaited(c)
    \/ \E c \in Callers : Pause(c)
    \/ \E c \in Callers : Resume(c)
    \/ \E c \in Callers : Stop(c)
    \/ \E c \in Callers : Reset(c)
    \/ \E r \in Runs : RunStart(r)
    \/ \E r \in Runs : RunPauseWake(r)
    \/ \E r \in Runs : RunGate(r)
    \/ \E r \in Runs, resp \in PlayResponses : RunResponse(r, resp)
    \/ \E r \in Runs : RunSettle(r)
    \/ \E r \in Runs : RunCancelled(r)
    \/ ResponseExpires

Spec == Init /\ [][Next]_vars

(***************************************************************************)
(* Steps of a run task, as seen from outside.                              *)
(***************************************************************************)
\* the task picks its next program line and enters _send_command with it
PicksLine(r) ==
    /\ rtask[r].pc \in {"new", "settle", "pausewait"}
    /\ rtask'[r].pc \in {"lockwait", "read"}

\* the task leaves _run_program through its last statements
EndsLoop(r) == Alive(r) /\ rtask'[r].pc = "done"

\* the task ends on a fatal firmware error: it goes from reading straight to the end
EndsFatal(r) == rtask[r].pc = "read" /\ rtask'[r].pc = "done"

\* on_job_complete fires: the loop ends with the cursor at or past the last line
JobComplete(r) == EndsLoop(r) /\ current_line_index' >= Len(gcode_lines)

\* a later run() has created another task
Superseded(r) == \E q \in Runs : q > r /\ rtask[q].pc # "none"

\* C1: at most one exchange is outstanding on the wire: no command is written
\* while the response of an earlier command is neither read nor expired, also
\* when run() or stop() cancels a run task in the middle of its exchange.
C1_OneExchangeOutstanding == Cardinality(inflight) <= 1

\* C2: a run that ends on a fatal firmware error leaves the device in Alarm with
\* the error message of that line, and fires no job-complete.
C2_FatalErrorLeavesAlarm ==
    [][\A r \in Runs : EndsFatal(r) =>
            /\ state' = "alarm"
            /\ error_message'.src = "G-code hiba"
            /\ ~JobComplete(r)]_vars

\* C3: a run started with from_line k that is not stopped and meets no fatal
\* error picks the lines k, k+1, ..., n-1 in this order, each once, and ends
\* after line n-1 with progress 100, job-complete and state Idle.
C3_RunSendsEveryLineInOrder ==
    [][\A r \in Runs : ~rtask[r].stop_seen =>
            /\ PicksLine(r) => rtask'[r].line = rtask[r].from + rtask[r].nsent
            /\ Alive(r) => rtask'[r].pc # "failed"
            /\ EndsLoop(r) /\ ~EndsFatal(r) =>
                    /\ rtask[r].from + rtask[r].nsent = Len(gcode_lines)
                    /\ JobComplete(r)
                    /\ status_progress' = 100
                    /\ state' = "idle"]_vars

\* C4: job-complete fires for a run only when that run has sent the lines up to
\* the end of the program, and never for a run that stop() was called on, that
\* ended on a fatal error or that a later run() superseded.
C4_JobCompleteOnlyAtEndOfProgram ==
    [][\A r \in Runs : JobComplete(r) =>
            /\ rtask[r].from + rtask[r].nsent = Len(gcode_lines)
            /\ ~rtask[r].stop_seen
            /\ ~EndsFatal(r)
            /\ ~Superseded(r)]_vars

\* C6: run, pause, resume and stop change the state only along the listed
\* transitions (Running -> Paused, Paused -> Running, Idle/Paused -> Running,
\* Running/Paused -> Idle); in any other state they leave it unchanged.
C6_OnlyListedTransitions ==
    [][/\ (\E c \in Callers : Pause(c)) =>
            state' = state \/ (state = "running" /\ state' = "paused")
       /\ (\E c \in Callers : Resume(c)) =>
            state' = state \/ (state = "paused" /\ state' = "running")
       /\ (\E r \in Runs : RunStart(r)) =>
            state' = state \/ (state \in {"idle", "paused"} /\ state' = "running")
       /\ (\E c \in Callers : Stop(c)) =>
            state' = state \/ (state \in {"running", "paused"} /\ state' = "idle")]_vars

(***************************************************************************)
(* Interactive motion: jog and move_to.                                    *)
(***************************************************************************)
\* a jog target that carries the moved axis only
JogTargetMovedAxisOnly(a, d) == [b \in Axes |-> IF b = a THEN position[b] + d ELSE 0]

\* jog(): the absolute target computed from the tracked position (lines 809-820)
JogTarget(a, d) == [b \in Axes |-> IF b = a THEN position[b] + d ELSE position[b]]

\* jog(), lines 803-836, up to the await of its move exchange
Jog(c, a, d, f) ==
    /\ CallIdle(c)
    /\ IF serial_open
       THEN /\ EnterSend(c, NewCall("jog", "move") @@ [axis |-> a, distance |-> d],
                         MoveCmd(MapOutgoing(ClampToLimits(JogTarget(a, d)).v), ClampSpeed(f)),
                         serial_lock, inflight)
            /\ UNCHANGED <<state, errVars>>
       ELSE /\ Ret(c, "jog", FALSE, Timeout)
            /\ state' = SetErrorState
            /\ SetError(ErrorMsg("Jog hiba", "Nincs kapcsolat"))
            /\ UNCHANGED gateVars
    /\ UNCHANGED <<linkVars, bgVars, posVars, endVars, cfgVars, progVars, rtask>>

\* jog(), lines 838-844: after the move exchange; on no error it goes on into
\* _check_endstop_after_jog -> check_endstops -> _send_command("M119")
JogResponse(c, resp) ==
    /\ Reading(c, "jog", "move")
    /\ ReadResponse(resp)
    /\ IF ERROR_PATTERN(resp)
       THEN /\ LeaveSend(c)
            /\ Ret(c, "jog", FALSE, resp)
       ELSE EnterSend(c, [call[c] EXCEPT !.stage = "endstop"], PlainCmd("M119"),
                      ReleaseLock(serial_lock), Consumed(inflight, CallerTask(c)))
    /\ UNCHANGED <<state, errVars, linkVars, bgVars, joint_position, cartesian_position,
                   endVars, cfgVars, progVars, rtask>>

\* check_endstops, lines 637-655: the firmware endstops as logical axes
HasEndstops(resp) == KindAt(resp, "endstop") # {}
LogicalEndstops(resp) ==
    LET m == resp[FirstOf(resp, "endstop")]
        fw == [f \in Axes |-> IF f = "X" THEN m.X ELSE IF f = "Y" THEN m.Y ELSE m.Z]
    IN  [l \in Axes |-> fw[CHOOSE f \in Axes : axis_map_reverse[f] = l]]

\* what check_endstops returns
CheckEndstops(resp) ==
    IF HasEndstops(resp) THEN LogicalEndstops(resp) ELSE [l \in Axes |-> FALSE]

\* a bookkeeping that marks every triggered endstop as a positive block
EndstopBlockedPositive(blocked, resp, a, d) ==
    IF CheckEndstops(resp)[a]
    THEN [blocked EXCEPT ![a] = "positive"]
    ELSE [blocked EXCEPT ![a] = "none"]

\* _check_endstop_after_jog, lines 676-687
EndstopBlockedAfter(blocked, resp, a, d) ==
    IF CheckEndstops(resp)[a]
    THEN [blocked EXCEPT ![a] = IF d > 0 THEN "positive" ELSE "negative"]
    ELSE [blocked EXCEPT ![a] = "none"]

\* line 687: "dict(self._endstop_blocked) if self._endstop_blocked else None"
StatusBlocked(blocked) ==
    IF \A a \in Axes : blocked[a] = "none" THEN NoneBlocked
    ELSE [null |-> FALSE, map |-> blocked]

\* jog(), lines 844-846: after the endstop query
JogEndstopResponse(c, resp) ==
    /\ Reading(c, "jog", "endstop")
    /\ LeaveSend(c)
    /\ ReadResponse(resp)
    /\ endstop_states' = IF HasEndstops(resp) THEN LogicalEndstops(resp) ELSE endstop_states
    /\ endstop_blocked' = EndstopBlockedAfter(endstop_blocked, resp,
                                              call[c].axis, call[c].distance)
    /\ status_endstop_blocked' = StatusBlocked(endstop_blocked')
    /\ Ret(c, "jog", TRUE, resp)
    /\ UNCHANGED <<state, errVars, linkVars, bgVars, joint_position, cartesian_position,
                   cfgVars, progVars, rtask>>

\* move_to(), lines 860-872, up to the await of its exchange
MoveTo(c, tgt, f) ==
    /\ CallIdle(c)
    /\ IF serial_open
       THEN /\ EnterSend(c, NewCall("move_to", "move"),
                         MoveCmd(MapOutgoing(ClampToLimits(tgt).v), ClampSpeed(f)),
                         serial_lock, inflight)
            /\ UNCHANGED <<state, errVars>>
       ELSE /\ Ret(c, "move_to", FALSE, Timeout)
            /\ state' = SetErrorState
            /\ SetError(ErrorMsg("Move hiba", "Nincs kapcsolat"))
            /\ UNCHANGED gateVars
    /\ UNCHANGED <<linkVars, bgVars, posVars, endVars, cfgVars, progVars, rtask>>

\* move_to(), lines 872-877, after its exchange
MoveToResponse(c, resp) ==
    /\ Reading(c, "move_to", "move")
    /\ LeaveSend(c)
    /\ ReadResponse(resp)
    /\ Ret(c, "move_to", ~ERROR_PATTERN(resp), resp)
    /\ UNCHANGED <<state, errVars, linkVars, bgVars, joint_position, cartesian_position,
                   endVars, cfgVars, progVars, rtask>>

(***************************************************************************)
(* Jog specification: one operator jogging and moving a connected device   *)
(* whose axis configuration is one of a few the configuration file can     *)
(* give; the firmware answers with any of the response shapes.             *)
(***************************************************************************)
Coords == -MaxCoord..MaxCoord

SwapXY == [a \in Axes |-> IF a = "X" THEN "Y" ELSE IF a = "Y" THEN "X" ELSE "Z"]
Limits(lo, hi) == [a \in Axes |-> [set |-> TRUE, lo |-> lo, hi |-> hi]]
LimitsOn(as, lo, hi) == [a \in Axes |-> [set |-> a \in as, lo |-> lo, hi |-> hi]]

\* axis configurations: the defaults of __init__, soft limits on every axis, and
\* a remapped, inverted and scaled arm with a soft limit on one axis
AxisConfigs ==
    { [map |-> IdentityMap, invert |-> NoInvert, scale |-> NoScale, limits |-> NoLimits],
      [map |-> IdentityMap, invert |-> NoInvert, scale |-> NoScale,
       limits |-> Limits(-1, 1)],
      [map |-> SwapXY, invert |-> [a \in Axes |-> a = "X"],
       scale |-> [a \in Axes |-> IF a = "Y" THEN 2 ELSE 0],
       limits |-> LimitsOn({"X"}, -1, 1)] }

Configured(cfg) ==
    /\ axis_map = cfg.map
    /\ axis_map_reverse = [f \in Axes |-> CHOOSE l \in Axes : cfg.map[l] = f]
    /\ axis_invert = cfg.invert
    /\ axis_scale = cfg.scale
    /\ axis_limits = cfg.limits

NoProgram ==
    /\ gcode_lines = <<>>
    /\ status_total_lines = 0
    /\ taught_positions = <<>>
    /\ current_line_index = 0
    /\ status_progress = 0
    /\ status_current_line = 0

InitJog ==
    /\ Connected
    /\ use_grbl = FALSE
    /\ \E cfg \in AxisConfigs : Configured(cfg)
    /\ NoProgram
    /\ call = [c \in Callers |-> IdleCall]

JogAxes == {"X", "Y"}
JogDistances == {-1, 1, 2 * MaxCoord}
Speeds == {0, 50, 200}
Targets == {[a \in Axes |-> IF a = "X" THEN x ELSE IF a = "Y" THEN y ELSE 0] :
                x \in Coords, y \in {0, MaxCoord}}

\* what the firmware may answer to a move
MoveResponses ==
    {Timeout, <<ErrLimit>>, <<ErrGrbl>>, <<InfoLine, ErrLimit>>}
        \cup {<<MoveLine(x, y, 0)>> : x \in Coords, y \in {0, MaxCoord}}

\* what the firmware may answer to the endstop query
EndstopResponses ==
    {Timeout, <<ErrLimit>>} \cup {<<EndstopLine(x, y, FALSE)>> : x, y \in BOOLEAN}

NextJog ==
    \/ \E c \in Operator, a \in JogAxes, d \in JogDistances, f \in Speeds : Jog(c, a, d, f)
    \/ \E c \in Operator, resp \in MoveResponses : JogResponse(c, resp)
    \/ \E c \in Operator, resp \in EndstopResponses : JogEndstopResponse(c, resp)
    \/ \E c \in Operator, tgt \in Targets, f \in Speeds : MoveTo(c, tgt, f)
    \/ \E c \in Operator, resp \in MoveResponses : MoveToResponse(c, resp)
    \/ \E c \in Operator : Return(c)

SpecJog == InitJog /\ [][NextJog]_vars

(***************************************************************************)
(* Joint moves, homing and calibration.                                    *)
(***************************************************************************)
\* _joint_limits (lines 166-170), in degrees counted like the coordinates
joint_limits ==
    [J1 |-> [lo |-> -180 * 300, hi |-> 180 * 300],
     J2 |-> [lo |-> -90 * 300, hi |-> 90 * 300],
     J3 |-> [lo |-> -135 * 300, hi |-> 135 * 300]]

\* max(lo, min(hi, j)), lines 913-915
ClampJoint(n, j) ==
    IF j > joint_limits[n].hi THEN joint_limits[n].hi
    ELSE IF j < joint_limits[n].lo THEN joint_limits[n].lo ELSE j

ClampJoints(j) == [n \in {"J1", "J2", "J3"} |-> ClampJoint(n, j[n])]

\* forward_kinematics(j1, j2, j3, config): the pose of these joint angles
forward_kinematics(j) == [fk |-> j]

\* move_to_joints: J2 -> X, J3 -> Y, J1 -> Z, two decimals (lines 920-924)
JointCmd(j, f) ==
    [g |-> "G1",
     words |-> [a \in Axes |-> Fmt2(Frac(IF a = "X" THEN j.J2 ELSE IF a = "Y" THEN j.J3 ELSE j.J1))],
     f |-> f]

\* move_to_joints(), lines 911-925, up to the await of its exchange
MoveToJoints(c, j, f) ==
    /\ CallIdle(c)
    /\ IF serial_open
       THEN /\ EnterSend(c, NewCall("move_to_joints", "move") @@ [joints |-> ClampJoints(j)],
                         JointCmd(ClampJoints(j), f), serial_lock, inflight)
            /\ UNCHANGED <<state, errVars>>
       ELSE /\ Ret(c, "move_to_joints", FALSE, Timeout)
            /\ state' = SetErrorState
            /\ SetError(ErrorMsg("Move joints hiba", "Nincs kapcsolat"))
            /\ UNCHANGED gateVars
    /\ UNCHANGED <<linkVars, bgVars, posVars, endVars, cfgVars, progVars, rtask>>

\* the error test of move_to_joints, by dialect (lines 927-932)
JointMoveFailed(resp) ==
    IF use_grbl THEN GRBL_ERROR_PATTERN(resp) ELSE ERROR_PATTERN(resp)

\* move_to_joints(), lines 925-939, after its exchange
MoveToJointsResponse(c, resp) ==
    /\ Reading(c, "move_to_joints", "move")
    /\ LeaveSend(c)
    /\ ReadResponse(resp)
    /\ IF JointMoveFailed(resp)
       THEN /\ Ret(c, "move_to_joints", FALSE, resp)
            /\ UNCHANGED <<joint_position, cartesian_position>>
       ELSE /\ joint_position' = call[c].joints
            /\ cartesian_position' = forward_kinematics(call[c].joints)
            /\ Ret(c, "move_to_joints", TRUE, resp)
    /\ UNCHANGED <<state, errVars, linkVars, bgVars, endVars, cfgVars, progVars, rtask>>

CalibrateCmd == [g |-> "G92", words |-> [a \in Axes |-> 0]]

\* calibrate(), lines 1271-1277, up to the await of its exchange
Calibrate(c) ==
    /\ CallIdle(c)
    /\ IF serial_open
       THEN /\ EnterSend(c, NewCall("calibrate", "zero"), CalibrateCmd, serial_lock, inflight)
            /\ state' = SetState("homing")
            /\ UNCHANGED errVars
       ELSE /\ Ret(c, "calibrate", FALSE, Timeout)
            /\ state' = SetErrorState
            /\ SetError(ErrorMsg("Kalibracio hiba", "Nincs kapcsolat"))
            /\ UNCHANGED gateVars
    /\ UNCHANGED <<linkVars, bgVars, posVars, endVars, cfgVars, progVars, rtask>>

\* calibrate(), lines 1277-1278: the exchange is over, the method sleeps
CalibrateResponse(c, resp) ==
    /\ Reading(c, "calibrate", "zero")
    /\ LeaveSend(c)
    /\ ReadResponse(resp)
    /\ call' = [call EXCEPT ![c] = [op |-> "calibrate", pc |-> "settle", resp |-> resp]]
    /\ UNCHANGED <<state, errVars, linkVars, bgVars, joint_position, cartesian_position,
                   endVars, cfgVars, progVars, rtask>>

\* calibrate(), lines 1280-1287: after the sleep
CalibrateSettle(c) ==
    /\ call[c].pc = "settle" /\ call[c].op = "calibrate"
    /\ position' = [a \in Axes |-> 0]
    /\ work_position' = [a \in Axes |-> 0]
    /\ state' = SetState("idle")
    /\ Ret(c, "calibrate", TRUE, call[c].resp)
    /\ UNCHANGED <<errVars, linkVars, bgVars, joint_position, cartesian_position,
                   position_updates, endVars, cfgVars, progVars, gateVars, rtask>>

(***************************************************************************)
(* Homing specification: one operator homing, calibrating and moving the   *)
(* joints of a connected device of either dialect, and using the controls  *)
(* stop, pause, resume and reset.                                          *)
(***************************************************************************)
InitHoming ==
    /\ Connected
    /\ use_grbl \in BOOLEAN
    /\ DefaultConfig
    /\ NoProgram
    /\ call = [c \in Callers |-> IdleCall]

JointInputs ==
    {[J1 |-> 0, J2 |-> 0, J3 |-> 0],
     [J1 |-> 200 * 300, J2 |-> 45 * 300, J3 |-> -140 * 300]}

JointSpeeds == {500}

\* what the firmware may answer to a homing, zeroing or joint move command
HomingResponses ==
    {Timeout, <<OkLine>>, <<InfoLine>>, <<ErrLimit>>, <<ErrGrbl>>}
        \cup {<<MoveLine(x, 0, 0)>> : x \in Coords}

NextHoming ==
    \/ \E c \in Operator : Home(c)
    \/ \E c \in Operator, resp \in HomingResponses : HomeResponse(c, resp)
    \/ \E c \in Operator : Calibrate(c)
    \/ \E c \in Operator, resp \in HomingResponses : CalibrateResponse(c, resp)
    \/ \E c \in Operator : CalibrateSettle(c)
    \/ \E c \in Operator, j \in JointInputs, f \in JointSpeeds : MoveToJoints(c, j, f)
    \/ \E c \in Operator, resp \in HomingResponses : MoveToJointsResponse(c, resp)
    \/ \E c \in Operator : Pause(c)
    \/ \E c \in Operator : Resume(c)
    \/ \E c \in Operator : Stop(c)
    \/ \E c \in Operator : Reset(c)
    \/ \E c \in Operator : Return(c)

SpecHoming == InitHoming /\ [][NextHoming]_vars

(***************************************************************************)
(* Properties of the interactive operations.                               *)
(***************************************************************************)
\* a response that is one ERROR: line
IsErrorLine(resp) == Len(resp) = 1 /\ resp[1].k = "err"

Zero == [a \in Axes |-> 0]

\* C5: once the state is Alarm it stays Alarm until reset() is called; stop,
\* pause, resume, home and calibrate do not change it.
C5_AlarmStaysUntilReset ==
    [][state = "alarm" => state' = "alarm" \/ (\E c \in Operator : Reset(c))]_vars

\* C7: the tracked positions change only to a position parsed from the
\* response just read, or to zero after a calibration the firmware answered
\* without error; the joint position changes only after a joint move the
\* firmware answered without error.
C7_PositionsOnlyConfirmed ==
    [][\A c \in Operator :
        /\ position' # position \/ work_position' # work_position =>
              \/ /\ call[c].pc = "read" /\ call'[c].pc \in {"ret", "settle"}
                 /\ HasMove(call'[c].resp)
                 /\ position' = ParsedMove(call'[c].resp)
                 /\ work_position' = position'
              \/ /\ CalibrateSettle(c)
                 /\ call[c].resp # Timeout /\ ~IsErrorLine(call[c].resp)
                 /\ position' = Zero /\ work_position' = Zero
        /\ joint_position' # joint_position \/ cartesian_position' # cartesian_position =>
              /\ call[c].pc = "read" /\ call'[c].pc = "ret"
              /\ call'[c].resp # Timeout /\ ~IsErrorLine(call'[c].resp)]_vars

\* C8: a jog or move_to whose exchange times out with an empty response
\* returns false, and the jog sends no endstop query.
C8_TimeoutIsNotSuccess ==
    [][\A c \in Operator :
        JogResponse(c, Timeout) \/ MoveToResponse(c, Timeout) =>
            call'[c].pc = "ret" /\ ~call'[c].ret]_vars

\* C9: a jog or move_to answered with an ERROR: line returns false, changes
\* neither the state nor the tracked position nor the endstop-blocked map and
\* writes no endstop query; a jog or move_to returns false only on such an
\* answer, and entering either with a target the soft limits clamp neither
\* fails nor changes the state.
C9_ErrorResponseFailsQuietly ==
    [][\A c \in Operator :
        /\ \A resp \in MoveResponses :
              IsErrorLine(resp) /\ (JogResponse(c, resp) \/ MoveToResponse(c, resp)) =>
                  /\ call'[c].pc = "ret" /\ ~call'[c].ret
                  /\ state' = state
                  /\ position' = position /\ work_position' = work_position
                  /\ endstop_blocked' = endstop_blocked /\ endstop_states' = endstop_states
                  /\ inflight' = {}
        /\ call[c].pc = "read" /\ call'[c].pc = "ret" /\ ~call'[c].ret =>
              IsErrorLine(call'[c].resp)
        /\ CallIdle(c) /\ ~CallIdle(c)' =>
              /\ call'[c].pc = "read"
              /\ state' = state /\ error_message' = error_message]_vars

\* C9 happens: a jog with a clamped target was answered with an ERROR: line and
\* returned false, on a device that tracks a position and a blocked endstop
C9_Witness ==
    \E c \in Operator :
        /\ call[c].pc = "ret" /\ call[c].op = "jog" /\ ~call[c].ret
        /\ IsErrorLine(call[c].resp)
        /\ position # Zero
        /\ endstop_blocked["X"] # "none"
        /\ axis_limits["X"].set

\* the move command of a jog of axis a by d at speed f, for a logical target tgt
JogWrites(c, tgt, f) ==
    inflight' = {[owner |-> CallerTask(c), live |-> TRUE,
                  cmd |-> [g |-> "G1",
                           words |-> [w \in Axes |-> Fmt2(MapOutgoing(tgt)[w])],
                           f |-> ClampSpeed(f)]]}

DiagTask(s) == <<"diag", s>>

\* the poll task exists and has not ended
PollRunning == poll_task \in {"new", "sleep"}

\* _start_status_polling
StartStatusPolling ==
    /\ status_polling' = TRUE
    /\ poll_task' = IF status_polling THEN poll_task ELSE "new"

\* a stop that clears the flag and leaves the task alone
StopFlagOnly ==
    /\ status_polling' = FALSE
    /\ UNCHANGED poll_task

\* _stop_status_polling
StopStatusPolling ==
    /\ status_polling' = FALSE
    /\ poll_task' = "none"

\* a get_status that reports the end effector as it was at construction
GetStatusAtRest ==
    /\ status_gripper_state' = "unknown"
    /\ status_sucker_state' = "off"

\* get_status(), lines 692-703
GetStatus ==
    /\ status_gripper_state' = gripper_state
    /\ status_sucker_state' = sucker_state

\* get_status() called by an upstream caller; it returns the status object
GetStatusCall(c) ==
    /\ CallIdle(c)
    /\ GetStatus
    /\ Ret(c, "get_status", TRUE, Timeout)
    /\ UNCHANGED <<state, errVars, linkVars, pollVars, gripper_state, sucker_state,
                   posVars, endVars, cfgVars, progVars, gateVars, rtask>>

\* _poll_status: from one await to the next
PollStatus ==
    /\ PollRunning
    /\ IF status_polling /\ connected
       THEN /\ GetStatus
            /\ poll_task' = "sleep"
       ELSE /\ poll_task' = "done"
            /\ UNCHANGED <<status_gripper_state, status_sucker_state>>
    /\ UNCHANGED <<state, errVars, linkVars, status_polling, diagnostics_running, diag,
                   gripper_state, sucker_state, posVars, endVars, cfgVars, progVars,
                   gateVars, call, rtask>>

\* a diagnostic request on an open port, up to its settle sleep
DiagBegin(s) ==
    /\ diag[s] = "idle"
    /\ serial_open
    /\ diagnostics_running' = TRUE
    /\ StopStatusPolling
    /\ diag' = [diag EXCEPT ![s] = "settle"]
    /\ UNCHANGED <<state, errVars, linkVars, toolVars, posVars, endVars, cfgVars,
                   progVars, gateVars, call, rtask>>

\* "async with device._serial_lock": taken at once or queued
DiagEnter(s) ==
    /\ diag[s] = "settle"
    /\ serial_lock' = EnterLock(serial_lock, DiagTask(s))
    /\ diag' = [diag EXCEPT ![s] = IF LockFree(serial_lock) THEN "hold" ELSE "lockwait"]
    /\ UNCHANGED <<state, errVars, linkVars, status_polling, poll_task,
                   diagnostics_running, toolVars, posVars, endVars, cfgVars, progVars,
                   inflight, call, rtask>>

\* the gate is handed to the waiting request, whose test starts in its thread
DiagGate(s) ==
    /\ diag[s] = "lockwait"
    /\ serial_lock.holder = NoTask
    /\ serial_lock.waiters # <<>> /\ Head(serial_lock.waiters) = DiagTask(s)
    /\ serial_lock' = [holder |-> DiagTask(s), waiters |-> Tail(serial_lock.waiters)]
    /\ diag' = [diag EXCEPT ![s] = "hold"]
    /\ UNCHANGED <<state, errVars, linkVars, status_polling, poll_task,
                   diagnostics_running, toolVars, posVars, endVars, cfgVars, progVars,
                   inflight, call, rtask>>

\* the test has returned its report (ok) or raised: the gate is released and the
\* finally clause runs
DiagEnd(s, ok) ==
    /\ diag[s] = "hold"
    /\ serial_lock' = ReleaseLock(serial_lock)
    /\ diagnostics_running' = FALSE
    /\ StartStatusPolling
    /\ diag' = [diag EXCEPT ![s] = IF ok THEN "done" ELSE "failed"]
    /\ UNCHANGED <<state, errVars, linkVars, toolVars, posVars, endVars, cfgVars,
                   progVars, inflight, call, rtask>>

\* the request has been answered
DiagReturn(s) ==
    /\ diag[s] \in {"done", "failed"}
    /\ diag' = [diag EXCEPT ![s] = "idle"]
    /\ UNCHANGED <<state, errVars, linkVars, status_polling, poll_task,
                   diagnostics_running, toolVars, posVars, endVars, cfgVars, progVars,
                   gateVars, call, rtask>>

(***************************************************************************)
(* End effector: gripper_on, gripper_off, sucker_on, sucker_off.           *)
(***************************************************************************)
ToolOps == {"gripper_on", "gripper_off", "sucker_on", "sucker_off"}

ToolCmd(op) ==
    PlainCmd(CASE op = "gripper_on" -> "M3 S90"
               [] op = "gripper_off" -> "M3 S0"
               [] op = "sucker_on" -> "M10"
               [] op = "sucker_off" -> "M11")

ToolError(op) == IF op \in {"gripper_on", "gripper_off"} THEN "Gripper hiba" ELSE "Szivo hiba"

\* gripper_on() and the like, up to the await of the exchange
Tool(c, op) ==
    /\ CallIdle(c)
    /\ IF serial_open
       THEN /\ EnterSend(c, NewCall(op, "cmd"), ToolCmd(op), serial_lock, inflight)
            /\ UNCHANGED <<state, errVars>>
       ELSE /\ Ret(c, op, FALSE, Timeout)
            /\ state' = SetErrorState
            /\ SetError(ErrorMsg(ToolError(op), "Nincs kapcsolat"))
            /\ UNCHANGED gateVars
    /\ UNCHANGED <<linkVars, bgVars, posVars, endVars, cfgVars, progVars, rtask>>

\* gripper_on() and the like, after the exchange
ToolResponse(c, resp) ==
    /\ call[c].pc = "read" /\ call[c].op \in ToolOps
    /\ LeaveSend(c)
    /\ ReadResponse(resp)
    /\ IF call[c].op \in {"gripper_on", "gripper_off"}
       THEN /\ gripper_state' = (IF call[c].op = "gripper_on" THEN "closed" ELSE "open")
            /\ status_gripper_state' = gripper_state'
            /\ UNCHANGED <<sucker_state, status_sucker_state>>
       ELSE /\ sucker_state' = (IF call[c].op = "sucker_on" THEN "on" ELSE "off")
            /\ status_sucker_state' = sucker_state'
            /\ UNCHANGED <<gripper_state, status_gripper_state>>
    /\ Ret(c, call[c].op, TRUE, resp)
    /\ UNCHANGED <<state, errVars, linkVars, pollVars, joint_position, cartesian_position,
                   endVars, cfgVars, progVars, rtask>>

(***************************************************************************)
(* Diagnostics specification: a connected legacy device whose polling has  *)
(* been started, two diagnostic requests that may overlap, and one         *)
(* operator using the end effector and reading the status.                 *)
(***************************************************************************)
InitDiag ==
    /\ Connected
    /\ use_grbl = FALSE
    /\ DefaultConfig
    /\ NoProgram
    /\ call = [c \in Callers |-> IdleCall]

ToolResponses == {Timeout, <<InfoLine>>, <<ErrLimit>>}

NextDiag ==
    \/ \E s \in Sessions : DiagBegin(s)
    \/ \E s \in Sessions : DiagEnter(s)
    \/ \E s \in Sessions : DiagGate(s)
    \/ \E s \in Sessions, ok \in BOOLEAN : DiagEnd(s, ok)
    \/ \E s \in Sessions : DiagReturn(s)
    \/ PollStatus
    \/ \E c \in Operator : GetStatusCall(c)
    \/ \E c \in Operator, op \in ToolOps : Tool(c, op)
    \/ \E c \in Operator : CallGate(c)
    \/ \E c \in Operator, resp \in ToolResponses : ToolResponse(c, resp)
    \/ \E c \in Operator : Return(c)

SpecDiag == InitDiag /\ [][NextDiag]_vars

InSession(s) == diag[s] \in {"settle", "lockwait", "hold"}
AtGate(s) == diag[s] \in {"lockwait", "hold"}

\* C11: while a diagnostic request waits for or holds the serial gate the status
\* polling is stopped and _diagnostics_running is true; when the last of the
\* requests has finished, normally or by exception, the polling runs again and
\* _diagnostics_running is false.
C11_DiagnosticsSuspendPolling ==
    /\ []((\E s \in Sessions : AtGate(s)) =>
              ~status_polling /\ ~PollRunning /\ diagnostics_running)
    /\ [][\A s \in Sessions :
            /\ diag[s] = "hold" /\ diag'[s] \in {"done", "failed"}
            /\ \A t \in Sessions : ~InSession(t)'
            => status_polling' /\ PollRunning' /\ ~diagnostics_running']_vars

(***************************************************************************)
(* Connection handling: connect, disconnect, reconnect.                    *)
(*   pc of a connect call: open (the port is being opened in a thread),    *)
(*   boot (the settle sleep), lockwait / read (the exchange of the status  *)
(*   query or of the zeroing command), settle (the sleep after zeroing).   *)
(***************************************************************************)
StatusLine(x, y, z) == [k |-> "status", x |-> x, y |-> y, z |-> z]

Banners == {"grbl", "legacy", "other", "nothing"}

\* GRBL_WELCOME_PATTERN / WELCOME_MSG: the dialect after the banner was read
DetectDialect(banner, ctor) ==
    IF banner = "grbl" THEN TRUE
    ELSE IF banner = "legacy" THEN FALSE
    ELSE ctor

ZeroCmd == [g |-> "G92", words |-> [a \in Axes |-> 0]]
StatusQuery == PlainCmd("?")

\* disconnect(), lines 309-322
DisconnectFields ==
    /\ StopStatusPolling
    /\ serial_open' = FALSE
    /\ connected' = FALSE

Disconnect(c) ==
    /\ CallIdle(c)
    /\ DisconnectFields
    /\ state' = SetState("disconnected")
    /\ UNCHANGED <<errVars, use_grbl, diagnostics_running, diag, toolVars, posVars,
                   endVars, cfgVars, progVars, gateVars, call, rtask>>

\* connect(), lines 231-245: up to the await of the port
Connect(c) ==
    /\ CallIdle(c)
    /\ state' = SetState("connecting")
    /\ call' = [call EXCEPT ![c] = [NewCall("connect", "open") EXCEPT !.pc = "open"]]
    /\ UNCHANGED <<errVars, linkVars, bgVars, posVars, endVars, cfgVars, progVars,
                   gateVars, rtask>>

\* reconnect(), lines 324-344, and connect() up to the await of the port
Reconnect(c) ==
    /\ CallIdle(c)
    /\ DisconnectFields
    /\ state' = SetState("connecting")
    /\ call' = [call EXCEPT ![c] = [NewCall("connect", "open") EXCEPT !.pc = "open"]]
    /\ UNCHANGED <<errVars, use_grbl, diagnostics_running, diag, toolVars, posVars,
                   endVars, cfgVars, progVars, gateVars, rtask>>

\* connect(): the port has been opened (lines 245-248), or opening it raised
\* (lines 304-307: _set_error, disconnect, return False)
ConnectOpen(c, ok) ==
    /\ call[c].op = "connect" /\ call[c].pc = "open"
    /\ IF ok
       THEN /\ serial_open' = TRUE
            /\ call' = [call EXCEPT ![c].pc = "boot"]
            /\ UNCHANGED <<state, errVars, connected, status_polling, poll_task>>
       ELSE /\ SetError(ErrorMsg("Csatlakozasi hiba", "open"))
            /\ DisconnectFields
            /\ state' = SetState("disconnected")
            /\ Ret(c, "connect", FALSE, Timeout)
    /\ UNCHANGED <<use_grbl, diagnostics_running, diag, toolVars, posVars, endVars,
                   cfgVars, progVars, gateVars, rtask>>

\* connect(), lines 250-283: the banner is read and the dialect decided; the
\* status query (GRBL) or the zeroing command (legacy) enters the gate
ConnectBanner(c, banner) ==
    /\ call[c].op = "connect" /\ call[c].pc = "boot"
    /\ use_grbl' = DetectDialect(banner, use_grbl)
    /\ connected' = TRUE
    /\ state' = SetState("idle")
    /\ IF use_grbl'
       THEN EnterSend(c, NewCall("connect", "status"), StatusQuery, serial_lock, inflight)
       ELSE EnterSend(c, NewCall("connect", "zero"), ZeroCmd, serial_lock, inflight)
    /\ UNCHANGED <<errVars, serial_open, bgVars, posVars, endVars, cfgVars, progVars,
                   rtask>>

\* connect(), lines 292-302: the status is refreshed, the polling started
ConnectFinish(c, resp) ==
    /\ status_gripper_state' = gripper_state
    /\ status_sucker_state' = sucker_state
    /\ StartStatusPolling
    /\ Ret(c, "connect", TRUE, resp)

HasStatus(resp) == KindAt(resp, "status") # {}
StatusOf(resp) == resp[FirstOf(resp, "status")]

\* what get_grbl_status does with the answer to "?", lines 1134-1152
GrblStatusRead(resp) ==
    /\ position' = IF HasStatus(resp)
                   THEN [a \in Axes |-> IF a = "X" THEN StatusOf(resp).x
                                        ELSE IF a = "Y" THEN StatusOf(resp).y
                                        ELSE StatusOf(resp).z]
                   ELSE ParseMoveResponse(resp, position)
    /\ work_position' = ParseMoveResponse(resp, work_position)
    /\ position_updates' = PositionCallback(resp)
    /\ joint_position' = IF HasStatus(resp)
                         THEN [J1 |-> StatusOf(resp).z, J2 |-> StatusOf(resp).x,
                               J3 |-> StatusOf(resp).y]
                         ELSE joint_position
    /\ cartesian_position' = IF HasStatus(resp)
                             THEN forward_kinematics(joint_position')
                             ELSE cartesian_position

\* connect() on GRBL, lines 271-282, with get_grbl_status (lines 1127-1167):
\* the answer to "?" has been read or has timed out
ConnectStatus(c, resp) ==
    /\ Reading(c, "connect", "status")
    /\ LeaveSend(c)
    /\ GrblStatusRead(resp)
    /\ ConnectFinish(c, resp)
    /\ UNCHANGED <<state, errVars, linkVars, diagnostics_running, diag, gripper_state,
                   sucker_state, endVars, cfgVars, progVars, rtask>>

\* connect() on legacy, lines 285-286: _send_command_no_response has written
\* G92 and slept; it leaves the gate without reading
ConnectZeroed(c) ==
    /\ Reading(c, "connect", "zero")
    /\ LeaveSend(c)
    /\ call' = [call EXCEPT ![c].pc = "settle"]
    /\ UNCHANGED <<state, errVars, linkVars, bgVars, posVars, endVars, cfgVars,
                   progVars, rtask>>

\* connect() on legacy, lines 286-302: after the sleep
ConnectSettle(c) ==
    /\ call[c].op = "connect" /\ call[c].pc = "settle"
    /\ position' = [a \in Axes |-> 0]
    /\ work_position' = [a \in Axes |-> 0]
    /\ ConnectFinish(c, Timeout)
    /\ UNCHANGED <<state, errVars, linkVars, diagnostics_running, diag, gripper_state,
                   sucker_state, joint_position, cartesian_position, position_updates,
                   endVars, cfgVars, progVars, gateVars, rtask>>

(***************************************************************************)
(* Connection specification: a device as constructed (either dialect       *)
(* preset), one operator connecting, reconnecting, disconnecting and       *)
(* homing, the poll task, and the diagnostic requests.                     *)
(***************************************************************************)
Constructed ==
    /\ state = "disconnected"
    /\ connected = FALSE
    /\ serial_open = FALSE
    /\ error_message = NoError
    /\ position = [a \in Axes |-> 0]
    /\ work_position = [a \in Axes |-> 0]
    /\ joint_position = [J1 |-> 0, J2 |-> 0, J3 |-> 0]
    /\ cartesian_position = [x |-> 0, y |-> 0, z |-> 0]
    /\ endstop_blocked = [a \in Axes |-> "none"]
    /\ status_endstop_blocked = NoneBlocked
    /\ endstop_states = [a \in Axes |-> FALSE]
    /\ serial_lock = FreeLock
    /\ inflight = {}
    /\ running = FALSE
    /\ paused = FALSE
    /\ run_task = 0
    /\ rtask = [r \in Runs |-> NoRun]
    /\ status_polling = FALSE
    /\ poll_task = "none"
    /\ diagnostics_running = FALSE
    /\ diag = [s \in Sessions |-> "idle"]
    /\ gripper_state = "unknown"
    /\ sucker_state = "off"
    /\ status_gripper_state = "none"
    /\ status_sucker_state = "none"
    /\ position_updates = 0
    /\ on_error = NoError

InitConnect ==
    /\ Constructed
    /\ use_grbl \in BOOLEAN
    /\ DefaultConfig
    /\ NoProgram
    /\ call = [c \in Callers |-> IdleCall]

\* what the firmware may answer to the status query
StatusResponses == {Timeout, <<OkLine>>, <<StatusLine(0, 0, 0)>>, <<StatusLine(MaxCoord, 0, 0)>>}

HomeResponses == {Timeout, <<ErrLimit>>, <<MoveLine(MaxCoord, 0, 0)>>}

NextConnect ==
    \/ \E c \in Operator : Connect(c)
    \/ \E c \in Operator : Reconnect(c)
    \/ \E c \in Operator : Disconnect(c)
    \/ \E c \in Operator, ok \in BOOLEAN : ConnectOpen(c, ok)
    \/ \E c \in Operator, banner \in Banners : ConnectBanner(c, banner)
    \/ \E c \in Operator : CallGate(c)
    \/ \E c \in Operator, resp \in StatusResponses : ConnectStatus(c, resp)
    \/ \E c \in Operator : ConnectZeroed(c)
    \/ \E c \in Operator : ConnectSettle(c)
    \/ \E c \in Operator : Home(c)
    \/ \E c \in Operator, resp \in HomeResponses : HomeResponse(c, resp)
    \/ \E c \in Operator : Return(c)
    \/ PollStatus
    \/ \E s \in Sessions : DiagBegin(s)
    \/ \E s \in Sessions : DiagEnter(s)
    \/ \E s \in Sessions : DiagGate(s)
    \/ \E s \in Sessions, ok \in BOOLEAN : DiagEnd(s, ok)
    \/ \E s \in Sessions : DiagReturn(s)

SpecConnect == InitConnect /\ [][NextConnect]_vars

ConnectReturns(c, val) ==
    /\ call[c].op = "connect" /\ call[c].pc # "ret"
    /\ call'[c].pc = "ret" /\ call'[c].ret = val

\* C12: once the port has opened, connect() returns true with the device Idle,
\* connected and one poll task running, whatever the banner and whether or not
\* the status query or the zeroing command is answered; the state goes to
\* Connecting and from there to Idle.
C12_ConnectEndsIdleAndPolling ==
    [][\A c \in Operator :
        /\ ConnectReturns(c, TRUE) =>
              /\ state' = "idle"
              /\ connected'
              /\ status_polling' /\ PollRunning'
        /\ ConnectReturns(c, FALSE) => call[c].pc = "open"
        /\ call[c].op = "connect" /\ state' # state =>
              \/ call[c].pc = "open" /\ call'[c].pc = "ret"
              \/ call[c].pc = "boot" /\ state = "connecting" /\ state' = "idle"
        /\ CallIdle(c) /\ call'[c].op = "connect" => state' = "connecting"]_vars

\* C13: when the port cannot be opened connect() returns false without raising;
\* the failure message has been handed to the error callback and is kept in
\* status.error_message, the device is not connected, no poll task is running
\* and the state is Disconnected.
C13_OpenFailureEndsDisconnected ==
    [][\A c \in Operator :
        ConnectOpen(c, FALSE) =>
            /\ call'[c].pc = "ret" /\ call'[c].ret = FALSE
            /\ on_error' = ErrorMsg("Csatlakozasi hiba", "open")
            /\ error_message' = on_error'
            /\ ~connected'
            /\ ~status_polling' /\ ~PollRunning'
            /\ state' = "disconnected"]_vars

\* C13 happens: connect() has failed to open the port on a device whose dialect
\* was detected by an earlier connection and that another failure had not yet
\* touched, and it has left no poll task
C13_Witness ==
    \E c \in Operator :
        /\ call[c].op = "connect" /\ call[c].pc = "ret" /\ ~call[c].ret
        /\ error_message = ErrorMsg("Csatlakozasi hiba", "open")
        /\ state = "disconnected" /\ ~connected /\ ~serial_open
        /\ poll_task = "none"
        /\ status_gripper_state # "none"

\* C14: every connect() that succeeds has written G92 X0 Y0 Z0 before it starts
\* the polling, and returns with the tracked logical position at (0,0,0).
C14_ConnectZeroesFirst ==
    [][\A c \in Operator :
        ConnectReturns(c, TRUE) =>
            /\ call[c].cmd = ZeroCmd
            /\ position' = [a \in Axes |-> 0]]_vars

(***************************************************************************)
(* Responses and the tracked position.                                     *)
(***************************************************************************)
\* the value logical axis l takes from the LINEAR MOVE line m: the word of its
\* firmware letter, sign turned back, scale multiplied in
IncomingOf(l, m) ==
    LET word == IF axis_map[l] = "X" THEN m.x ELSE IF axis_map[l] = "Y" THEN m.y ELSE m.z
        signed == IF axis_invert[l] THEN -word ELSE word
    IN  IF axis_scale[l] # 0 THEN signed * axis_scale[l] ELSE signed

\* what consuming resp does to the tracked position and to on_position_update
PositionFollows(resp) ==
    IF \E i \in 1..Len(resp) : resp[i].k = "move"
    THEN LET m == resp[FirstOf(resp, "move")]
         IN  /\ position' = [l \in Axes |-> IncomingOf(l, m)]
             /\ work_position' = position'
             /\ position_updates' = 1
    ELSE /\ position' = position
         /\ work_position' = work_position
         /\ position_updates' = 0

\* C15: a response consumed by a command exchange that contains a LINEAR MOVE
\* line sets status.position and status.work_position together to map_incoming
\* of that line's X, Y, Z and calls on_position_update once; a response without
\* such a line leaves both positions alone and calls nothing; nothing else
\* moves the two positions or calls on_position_update.
C15_MoveLineSetsPosition ==
    [][\A c \in Operator :
        /\ Reading(c, "jog", "move") =>
              \A resp \in MoveResponses : JogResponse(c, resp) => PositionFollows(resp)
        /\ Reading(c, "jog", "endstop") =>
              \A resp \in EndstopResponses :
                  JogEndstopResponse(c, resp) => PositionFollows(resp)
        /\ Reading(c, "move_to", "move") =>
              \A resp \in MoveResponses : MoveToResponse(c, resp) => PositionFollows(resp)
        /\ \/ position' # position
           \/ work_position' # work_position
           \/ position_updates' # position_updates
           => call[c].pc = "read"]_vars

\* C15 happens: a move answered with a LINEAR MOVE line has been consumed on a
\* device with swapped, inverted and scaled axes, and the position has followed
C15_Witness ==
    \E c \in Operator :
        /\ call[c].pc = "ret" /\ call[c].op = "move_to"
        /\ HasMove(call[c].resp)
        /\ axis_map # IdentityMap /\ axis_invert["X"] /\ axis_scale["Y"] # 0
        /\ position["X"] # 0 /\ position["Y"] # 0
        /\ position = work_position
        /\ position_updates = 1

\* the status fields other than the two end effector mirrors, and the gate
StatusFrame ==
    <<state, error_message, on_error, position, work_position, joint_position,
      cartesian_position, position_updates, endstop_blocked, status_endstop_blocked,
      endstop_states,
      status_progress, status_current_line, serial_lock, inflight>>

\* C16: the polling loop and get_status() never write to the serial link and
\* never enter the serial gate; a polling pass changes nothing of the status
\* but the gripper and sucker fields, which it sets to the tracked values.
C16_PollingLeavesWireAlone ==
    [][/\ PollStatus \/ (\E c \in Operator : GetStatusCall(c)) =>
              /\ StatusFrame' = StatusFrame
              /\ \/ /\ status_gripper_state' = gripper_state
                    /\ status_sucker_state' = sucker_state
                 \/ /\ poll_task' = "done"
                    /\ status_gripper_state' = status_gripper_state
                    /\ status_sucker_state' = status_sucker_state
       /\ PollStatus /\ status_polling /\ connected =>
              status_gripper_state' = gripper_state /\ status_sucker_state' = sucker_state
      ]_vars

\* C16 happens: the poll task has made a pass and is inside its loop while the
\* command of an end effector operation is on the wire and holds the gate, after
\* the gripper was closed
C16_Witness ==
    \E c \in Operator :
        /\ poll_task = "sleep" /\ status_polling
        /\ call[c].pc = "read" /\ call[c].op \in ToolOps
        /\ serial_lock.holder = CallerTask(c)
        /\ inflight = {[owner |-> CallerTask(c), cmd |-> call[c].cmd, live |-> TRUE]}
        /\ gripper_state = "closed" /\ status_gripper_state = "closed"

(***************************************************************************)
(* Endstop bookkeeping after a jog.                                        *)
(***************************************************************************)
\* what the ENDSTOP line m says of logical axis a: the flag of its firmware letter
TriggeredOn(a, m) ==
    IF axis_map[a] = "X" THEN m.X ELSE IF axis_map[a] = "Y" THEN m.Y ELSE m.Z

\* C17: after an accepted jog of axis A by d, the endstop-blocked map changes for
\* A only: A reported triggered gives 'positive' for d > 0 and 'negative' for
\* d < 0, A reported not triggered removes the entry of A; the other entries
\* stay, and status.endstop_blocked is the map, or None when the map is empty.
C17_JogUpdatesBlockOfItsAxis ==
    [][\A c \in Operator :
        Reading(c, "jog", "endstop") =>
            \A resp \in EndstopResponses :
                JogEndstopResponse(c, resp) /\ (\E i \in 1..Len(resp) : resp[i].k = "endstop") =>
                    LET a == call[c].axis
                        d == call[c].distance
                        m == resp[FirstOf(resp, "endstop")]
                    IN  /\ TriggeredOn(a, m) /\ d > 0 => endstop_blocked'[a] = "positive"
                        /\ TriggeredOn(a, m) /\ d < 0 => endstop_blocked'[a] = "negative"
                        /\ ~TriggeredOn(a, m) => endstop_blocked'[a] = "none"
                        /\ \A b \in Axes \ {a} : endstop_blocked'[b] = endstop_blocked[b]
                        /\ IF \A b \in Axes : endstop_blocked'[b] = "none"
                           THEN status_endstop_blocked'.null
                           ELSE /\ ~status_endstop_blocked'.null
                                /\ status_endstop_blocked'.map = endstop_blocked']_vars

\* C17 happens: a jog of X in the negative direction on the device with swapped
\* axes has found X triggered while Y was blocked from an earlier jog
C17_Witness ==
    \E c \in Operator :
        /\ call[c].pc = "ret" /\ call[c].op = "jog" /\ call[c].ret
        /\ HasEndstops(call[c].resp)
        /\ axis_map # IdentityMap
        /\ endstop_blocked["X"] = "negative"
        /\ endstop_blocked["Y"] = "positive"
        /\ ~status_endstop_blocked.null

\* C18: the block of an axis is removed only by a jog of that axis whose endstop
\* query reports the axis not triggered; a query that times out or whose reply
\* cannot be parsed leaves the block in place.
C18_BlockClearedOnlyOnReport ==
    [][\A a \in Axes :
        endstop_blocked[a] # "none" /\ endstop_blocked'[a] = "none" =>
            \E c \in Operator :
                /\ Reading(c, "jog", "endstop") /\ call[c].axis = a
                /\ call'[c].pc = "ret"
                /\ HasEndstops(call'[c].resp)
                /\ ~TriggeredOn(a, call'[c].resp[FirstOf(call'[c].resp, "endstop")])]_vars

(***************************************************************************)
(* Cartesian moves: move_to_xyz and move_to_xyz_linear, with               *)
(* inverse_kinematics of drivers/kinematics.py.                            *)
(*                                                                         *)
(* Geometry.  The targets lie on the horizontal line through the shoulder  *)
(* (y = 0, z = L1), so a point is its x in whole millimetres and its       *)
(* distance from the shoulder is |x|.  The joint angles of the reachable   *)
(* points used are the values inverse_kinematics returns for them, rounded *)
(* to two decimals and counted in ticks of 1/300 degree.                   *)
(***************************************************************************)
L2 == 140
L3 == 165

AbsVal(n) == IF n < 0 THEN -n ELSE n

\* max_reach and min_reach, kinematics.py lines 136-137
MaxReach == L2 + L3
MinReach == AbsVal(L2 - L3)

\* a reach test that knows only the outer limit
IkWithinMaxReach(x) == AbsVal(x) <= MaxReach

\* the reach test of inverse_kinematics, lines 139-146: not beyond max_reach,
\* not inside min_reach unless on the shoulder itself
IkValid(x) ==
    /\ ~(AbsVal(x) > MaxReach)
    /\ ~(AbsVal(x) < MinReach /\ AbsVal(x) > 0)

\* shoulder and elbow angle by distance, lines 146-175
ElbowAngles ==
    [d \in {0, 95, 105, 205, 295, 305} |->
        CASE d = 0   -> [J2 |-> 27000, J3 |-> -27000]
          [] d = 95  -> [J2 |-> 26094, J3 |-> -43470]
          [] d = 105 -> [J2 |-> 25008, J3 |-> -42240]
          [] d = 205 -> [J2 |-> 15954, J3 |-> -28788]
          [] d = 295 -> [J2 |-> 4800, J3 |-> -8859]
          [] d = 305 -> [J2 |-> 0, J3 |-> 0]]

\* inverse_kinematics(x, 0, L1): base angle atan2(0, x), then the arm angles;
\* an unreachable point gives (j1, 0, 0) and valid = False
inverse_kinematics(x) ==
    LET j1 == IF x < 0 THEN 180 * 300 ELSE 0
    IN  IF IkValid(x) /\ AbsVal(x) \in DOMAIN ElbowAngles
        THEN [valid |-> TRUE, J1 |-> j1, J2 |-> ElbowAngles[AbsVal(x)].J2,
              J3 |-> ElbowAngles[AbsVal(x)].J3]
        ELSE [valid |-> IkValid(x), J1 |-> j1, J2 |-> 0, J3 |-> 0]

IkJoints(x) ==
    [n \in {"J1", "J2", "J3"} |->
        IF n = "J1" THEN inverse_kinematics(x).J1
        ELSE IF n = "J2" THEN inverse_kinematics(x).J2 ELSE inverse_kinematics(x).J3]

\* move_to_xyz(), lines 945-973
MoveToXyz(c, x, f) ==
    IF inverse_kinematics(x).valid
    THEN MoveToJoints(c, IkJoints(x), f)
    ELSE /\ CallIdle(c)
         /\ Ret(c, "move_to_xyz", FALSE, Timeout)
         /\ UNCHANGED <<state, errVars, linkVars, bgVars, posVars, endVars, cfgVars,
                        progVars, gateVars, rtask>>

\* forward_kinematics of a stretched arm (j2 = j3 = 0) turned to j1 = 0 or 180
StartOnLine(j) == IF j.J1 = 0 THEN MaxReach ELSE -MaxReach

\* n_steps = max(1, int(dist / step_size)), line 1019
StepsOf(start, target, step) ==
    IF AbsVal(target - start) \div step < 1 THEN 1 ELSE AbsVal(target - start) \div step

\* the intermediate point of step i, lines 1025-1030
PathPoint(start, target, n, i) == start + (i * (target - start)) \div n

\* the call record of move_to_xyz_linear: issued lists the points whose move
\* was written; known tells that the status answer gave the start
NewLinear(x, f, step) ==
    NewCall("move_to_xyz_linear", "status") @@
        [target |-> x, f |-> f, step |-> step, known |-> FALSE, start |-> 0,
         n |-> 0, i |-> 0, issued |-> <<>>, joints |-> [J1 |-> 0, J2 |-> 0, J3 |-> 0]]

LinearRet(c, rec, val, resp) ==
    call' = [call EXCEPT ![c] =
                [op |-> "move_to_xyz_linear", pc |-> "ret", ret |-> val, resp |-> resp,
                 target |-> rec.target, step |-> rec.step, known |-> rec.known,
                 start |-> rec.start, n |-> rec.n, issued |-> rec.issued]]

\* move_to_xyz_linear(): step i of the loop, lines 1024-1039, up to the await of
\* the exchange of move_to_joints; lk and inf are the gate and the wire as found
LinearStep(c, rec, i, lk, inf) ==
    LET pt == PathPoint(rec.start, rec.target, rec.n, i)
        j == ClampJoints(IkJoints(pt))
    IN  IF ~inverse_kinematics(pt).valid
        THEN /\ LinearRet(c, rec, FALSE, Timeout)
             /\ serial_lock' = lk
             /\ inflight' = inf
             /\ UNCHANGED <<state, errVars>>
        ELSE IF serial_open
        THEN /\ EnterSend(c, [rec EXCEPT !.stage = "move", !.i = i, !.joints = j,
                                        !.issued = Append(@, pt)],
                          JointCmd(j, rec.f), lk, inf)
             /\ UNCHANGED <<state, errVars>>
        ELSE /\ state' = SetErrorState
             /\ SetError(ErrorMsg("Move joints hiba", "Nincs kapcsolat"))
             /\ serial_lock' = lk
             /\ inflight' = inf
             /\ IF i < rec.n
                THEN call' = [call EXCEPT ![c] = [rec EXCEPT !.pc = "pause", !.i = i]]
                ELSE LinearRet(c, rec, TRUE, Timeout)

\* move_to_xyz_linear(), lines 996-999 with get_grbl_status lines 1129-1133
MoveToXyzLinear(c, x, f, step) ==
    /\ CallIdle(c)
    /\ IF use_grbl /\ serial_open
       THEN EnterSend(c, NewLinear(x, f, step), StatusQuery, serial_lock, inflight)
       ELSE LinearRet(c, NewLinear(x, f, step), FALSE, Timeout) /\ UNCHANGED gateVars
    /\ UNCHANGED <<state, errVars, linkVars, bgVars, posVars, endVars, cfgVars,
                   progVars, rtask>>

\* move_to_xyz_linear(), lines 999-1039: after the status query
LinearStatus(c, resp) ==
    /\ Reading(c, "move_to_xyz_linear", "status")
    /\ GrblStatusRead(resp)
    /\ IF ~HasStatus(resp)
       THEN /\ LinearRet(c, call[c], FALSE, resp)
            /\ LeaveSend(c)
            /\ UNCHANGED <<state, errVars>>
       ELSE LET start == StartOnLine(joint_position')
                rec == [call[c] EXCEPT !.known = TRUE, !.start = start]
            IN  IF AbsVal(rec.target - start) = 0
                THEN /\ LinearRet(c, rec, TRUE, resp)
                     /\ LeaveSend(c)
                     /\ UNCHANGED <<state, errVars>>
                ELSE LinearStep(c, [rec EXCEPT !.n = StepsOf(start, rec.target, rec.step)],
                                1, ReleaseLock(serial_lock),
                                Consumed(inflight, CallerTask(c)))
    /\ UNCHANGED <<linkVars, bgVars, endVars, cfgVars, progVars, rtask>>

\* move_to_xyz_linear(), lines 1036-1043: after the exchange of move_to_joints
LinearMoveResponse(c, resp) ==
    /\ Reading(c, "move_to_xyz_linear", "move")
    /\ LeaveSend(c)
    /\ ReadResponse(resp)
    /\ IF JointMoveFailed(resp)
       THEN UNCHANGED <<joint_position, cartesian_position>>
       ELSE /\ joint_position' = call[c].joints
            /\ cartesian_position' = forward_kinematics(call[c].joints)
    /\ IF call[c].i < call[c].n
       THEN call' = [call EXCEPT ![c].pc = "pause"]
       ELSE LinearRet(c, call[c], TRUE, resp)
    /\ UNCHANGED <<state, errVars, linkVars, bgVars, endVars, cfgVars, progVars, rtask>>

\* move_to_xyz_linear(): the sleep between two steps has elapsed
LinearNext(c) ==
    /\ call[c].op = "move_to_xyz_linear" /\ call[c].pc = "pause"
    /\ LinearStep(c, call[c], call[c].i + 1, serial_lock, inflight)
    /\ UNCHANGED <<linkVars, bgVars, posVars, endVars, cfgVars, progVars, rtask>>

(***************************************************************************)
(* Cartesian specification: a connected device of either dialect, one      *)
(* operator moving to points of the line, directly and in steps.           *)
(***************************************************************************)
InitXyz ==
    /\ Connected
    /\ use_grbl \in BOOLEAN
    /\ DefaultConfig
    /\ NoProgram
    /\ call = [c \in Callers |-> IdleCall]

XTargets == {-295, 5, 105, 305, 405}
StepSizes == {100, 200, 1000}
XyzStatusResponses == {Timeout, <<OkLine>>, <<StatusLine(0, 0, 0)>>}
XyzMoveResponses == {Timeout, <<OkLine>>, <<ErrGrbl>>, <<ErrLimit>>}

NextXyz ==
    \/ \E c \in Operator, x \in XTargets, f \in JointSpeeds : MoveToXyz(c, x, f)
    \/ \E c \in Operator, resp \in XyzMoveResponses : MoveToJointsResponse(c, resp)
    \/ \E c \in Operator, x \in XTargets, f \in JointSpeeds, step \in StepSizes :
            MoveToXyzLinear(c, x, f, step)
    \/ \E c \in Operator, resp \in XyzStatusResponses : LinearStatus(c, resp)
    \/ \E c \in Operator, resp \in XyzMoveResponses : LinearMoveResponse(c, resp)
    \/ \E c \in Operator : LinearNext(c)
    \/ \E c \in Operator : Return(c)

SpecXyz == InitXyz /\ [][NextXyz]_vars

\* the point x lies beyond the reach of the arm or inside its inner limit
Unreachable(x) == AbsVal(x) > L2 + L3 \/ (0 < AbsVal(x) /\ AbsVal(x) < L3 - L2)

\* C19: move_to_xyz on a target that inverse kinematics reports unreachable
\* returns false, writes nothing and leaves the state, the tracked joint and
\* Cartesian position and the error message alone; a reachable target goes on
\* to the command of move_to_joints.
C19_UnreachableTargetWritesNothing ==
    [][\A c \in Operator, x \in XTargets, f \in JointSpeeds :
        MoveToXyz(c, x, f) =>
            IF Unreachable(x)
            THEN /\ call'[c].pc = "ret" /\ call'[c].ret = FALSE
                 /\ inflight' = inflight /\ serial_lock' = serial_lock
                 /\ state' = state
                 /\ joint_position' = joint_position
                 /\ cartesian_position' = cartesian_position
                 /\ error_message' = error_message /\ on_error' = on_error
            ELSE /\ call'[c].op = "move_to_joints" /\ call'[c].pc = "read"
                 /\ \E e \in inflight' \ inflight :
                        /\ e.owner = CallerTask(c)
                        /\ e.cmd = JointCmd(ClampJoints(IkJoints(x)), f)]_vars

\* C19 happens: move_to_xyz has refused a point inside the inner limit on an arm
\* that an earlier move had taken away from its zero pose
C19_Witness ==
    \E c \in Operator :
        /\ call[c].op = "move_to_xyz" /\ call[c].pc = "ret" /\ ~call[c].ret
        /\ joint_position # [J1 |-> 0, J2 |-> 0, J3 |-> 0]
        /\ inflight = {} /\ state = "idle" /\ error_message = NoError

\* the arm is stretched out along the line, where StartOnLine gives its point
Stretched(j) == j.J2 = 0 /\ j.J3 = 0 /\ j.J1 \in {0, 180 * 300}

\* C20: move_to_xyz_linear issues its moves in path order, steps 1..N with
\* N = max(1, floor(distance / step_size)), from the point the tracked joints
\* give; at the first unreachable step it returns false having issued exactly
\* the moves of the steps before it; if every step is reachable it issues
\* exactly N moves, the last to the target, and returns true.
C20_LinearMovesInPathOrder ==
    \A c \in Operator :
        (/\ call[c].op = "move_to_xyz_linear" /\ call[c].pc = "ret"
         /\ (call[c].known \/ Stretched(joint_position)))
        => LET r == call[c]
               start == IF r.known THEN r.start ELSE StartOnLine(joint_position)
               n == StepsOf(start, r.target, r.step)
               bad == {i \in 1..n : Unreachable(PathPoint(start, r.target, n, i))}
               upto == IF bad = {} THEN n
                       ELSE (CHOOSE i \in bad : \A k \in bad : i <= k) - 1
           IN  /\ r.issued = [i \in 1..upto |-> PathPoint(start, r.target, n, i)]
               /\ r.ret = (bad = {})
               /\ (bad = {} => r.issued[n] = r.target)

(***************************************************************************)
(* Teaching: teach_record_position, teach_clear and teach_play.            *)
(*   A playback is a call whose record keeps i, the place in the list of   *)
(*   the position being replayed, pos, that position, and stage, the       *)
(*   command of the step it is exchanging (move, gripper, sucker);         *)
(*   pc = "sleep" is the settle delay that ends a step.  stop_seen tells   *)
(*   that stop() was called since the playback began.                      *)
(***************************************************************************)
MaxTaught == 2

Taught(pos, g, s) == [pos |-> pos, gripper |-> g, sucker |-> s]

\* teach_record_position(), lines 1464-1478
TeachRecord(c) ==
    /\ CallIdle(c)
    /\ Len(taught_positions) < MaxTaught
    /\ taught_positions' = Append(taught_positions,
                                  Taught(position, gripper_state, sucker_state))
    /\ UNCHANGED <<state, errVars, linkVars, bgVars, posVars, endVars, cfgVars,
                   gcode_lines, status_total_lines, current_line_index, running, paused,
                   run_task, status_progress, status_current_line, gateVars, call, rtask>>

\* teach_clear(), lines 1511-1514
TeachClear(c) ==
    /\ CallIdle(c)
    /\ taught_positions' = <<>>
    /\ UNCHANGED <<state, errVars, linkVars, bgVars, posVars, endVars, cfgVars,
                   gcode_lines, status_total_lines, current_line_index, running, paused,
                   run_task, status_progress, status_current_line, gateVars, call, rtask>>

\* the effector commands teach_play sends for a position, in order (lines 1495-1503)
TeachTools(pos) ==
    (IF pos.gripper = "closed" THEN <<"gripper_on">>
     ELSE IF pos.gripper = "open" THEN <<"gripper_off">> ELSE <<>>)
    \o <<IF pos.sucker = "on" THEN "sucker_on" ELSE "sucker_off">>

\* teach_play(): the for loop takes its next position (lines 1487-1492), or ends
\* (lines 1507-1509).  rec is the record of the playback, i the place it has
\* reached, run the value of _running, lk and inf the gate and the wire as found.
TeachLoopTop(c, rec, i, run, lk, inf) ==
    IF i > Len(taught_positions) \/ ~run
    THEN /\ running' = FALSE
         /\ state' = SetState("idle")
         /\ call' = [call EXCEPT ![c] = [op |-> "teach_play", pc |-> "ret", ret |-> TRUE,
                                         resp |-> Timeout]]
         /\ serial_lock' = lk
         /\ inflight' = inf
         /\ UNCHANGED errVars
    ELSE LET pos == taught_positions[i]
             step == [rec EXCEPT !.i = i, !.pos = pos, !.stage = "move", !.tools = TeachTools(pos)]
         IN  /\ running' = run
             /\ IF serial_open
                THEN /\ EnterSend(c, step,
                                  MoveCmd(MapOutgoing(ClampToLimits(pos.pos).v),
                                          ClampSpeed(rec.f)), lk, inf)
                     /\ state' = SetState("running")
                     /\ UNCHANGED errVars
                ELSE /\ call' = [call EXCEPT ![c] = [step EXCEPT !.pc = "sleep", !.tools = <<>>]]
                     /\ state' = SetErrorState
                     /\ SetError(ErrorMsg(ToolError("sucker_on"), "Nincs kapcsolat"))
                     /\ serial_lock' = lk
                     /\ inflight' = inf

\* teach_play(speed), lines 1480-1492, up to the await of the first move
TeachPlay(c, f) ==
    /\ CallIdle(c)
    /\ IF taught_positions = <<>>
       THEN /\ Ret(c, "teach_play", FALSE, Timeout)
            /\ UNCHANGED <<state, errVars, running, gateVars>>
       ELSE TeachLoopTop(c, NewCall("teach_play", "move") @@
                                [f |-> f, i |-> 0, pos |-> Taught(position, "unknown", "off"),
                                 tools |-> <<>>, stop_seen |-> FALSE],
                         1, TRUE, serial_lock, inflight)
    /\ UNCHANGED <<linkVars, bgVars, posVars, endVars, cfgVars, loadVars,
                   current_line_index, paused, run_task, status_progress,
                   status_current_line, rtask>>

\* what the step does once an exchange of it has ended: the next effector
\* command of the position, or the settle delay (lines 1495-1505)
TeachStepOn(c, rec) ==
    IF rec.tools # <<>>
    THEN EnterSend(c, [rec EXCEPT !.stage = Head(rec.tools), !.tools = Tail(rec.tools)],
                   ToolCmd(Head(rec.tools)), ReleaseLock(serial_lock),
                   Consumed(inflight, CallerTask(c)))
    ELSE /\ call' = [call EXCEPT ![c] = [rec EXCEPT !.pc = "sleep"]]
         /\ LeaveSend(c)

\* teach_play(): the exchange of move_to has ended; its result is not looked at
TeachMoveResponse(c, resp) ==
    /\ Reading(c, "teach_play", "move")
    /\ ReadResponse(resp)
    /\ TeachStepOn(c, call[c])
    /\ UNCHANGED <<state, errVars, linkVars, bgVars, joint_position, cartesian_position,
                   endVars, cfgVars, progVars, rtask>>

\* teach_play(): the exchange of an effector command has ended
TeachToolResponse(c, resp) ==
    /\ call[c].pc = "read" /\ call[c].op = "teach_play" /\ call[c].stage \in ToolOps
    /\ ReadResponse(resp)
    /\ IF call[c].stage \in {"gripper_on", "gripper_off"}
       THEN /\ gripper_state' = (IF call[c].stage = "gripper_on" THEN "closed" ELSE "open")
            /\ status_gripper_state' = gripper_state'
            /\ UNCHANGED <<sucker_state, status_sucker_state>>
       ELSE /\ sucker_state' = (IF call[c].stage = "sucker_on" THEN "on" ELSE "off")
            /\ status_sucker_state' = sucker_state'
            /\ UNCHANGED <<gripper_state, status_gripper_state>>
    /\ TeachStepOn(c, call[c])
    /\ UNCHANGED <<state, errVars, linkVars, pollVars, joint_position, cartesian_position,
                   endVars, cfgVars, progVars, rtask>>

\* teach_play(): the settle delay of a step has elapsed (line 1505)
TeachSettle(c) ==
    /\ call[c].op = "teach_play" /\ call[c].pc = "sleep"
    /\ TeachLoopTop(c, call[c], call[c].i + 1, running, serial_lock, inflight)
    /\ UNCHANGED <<linkVars, bgVars, posVars, endVars, cfgVars, loadVars,
                   current_line_index, paused, run_task, status_progress,
                   status_current_line, rtask>>

(***************************************************************************)
(* Teaching specification: a connected legacy device with a list taught    *)
(* earlier; the operator records, clears and plays, a second caller may    *)
(* stop and play as well.                                                  *)
(***************************************************************************)
TaughtLists ==
    { <<>>,
      <<Taught([a \in Axes |-> IF a = "X" THEN 3 ELSE 0], "closed", "on")>>,
      <<Taught([a \in Axes |-> IF a = "X" THEN 3 ELSE 0], "closed", "on"),
        Taught([a \in Axes |-> 0], "unknown", "off")>> }

InitTeach ==
    /\ Connected
    /\ use_grbl = FALSE
    /\ DefaultConfig
    /\ gcode_lines = <<>>
    /\ status_total_lines = 0
    /\ taught_positions \in TaughtLists
    /\ current_line_index = 0
    /\ status_progress = 0
    /\ status_current_line = 0
    /\ call = [c \in Callers |-> IdleCall]

TeachSpeeds == {50}
TeachResponses == {Timeout, <<InfoLine>>, <<ErrLimit>>}

NextTeach ==
    \/ \E c \in Operator : TeachRecord(c)
    \/ \E c \in Operator : TeachClear(c)
    \/ \E c \in Callers, f \in TeachSpeeds : TeachPlay(c, f)
    \/ \E c \in Callers : CallGate(c)
    \/ \E c \in Callers, resp \in TeachResponses : TeachMoveResponse(c, resp)
    \/ \E c \in Callers, resp \in TeachResponses : TeachToolResponse(c, resp)
    \/ \E c \in Callers : TeachSettle(c)
    \/ \E c \in Callers : Return(c)
    \/ \E c \in Callers \ Operator : Stop(c)

SpecTeach == InitTeach /\ [][NextTeach]_vars

\* the playback of caller c starts the step of the position at place i
StartsStep(c, i) ==
    /\ call'[c].op = "teach_play" /\ call'[c].pc \in {"read", "lockwait"}
    /\ call'[c].stage = "move" /\ call'[c].i = i
    /\ ~(call[c].op = "teach_play" /\ call[c].stage = "move" /\ call[c].i = i)

\* C21: teach_play replays the positions in recorded order, the move and then
\* the effector commands of each, and starts the step of a position only when
\* the step before it is finished; once stop() has been called during a
\* playback that playback starts no further step; on an empty list teach_play
\* returns false, sends nothing and changes nothing; teach_record_position
\* only appends and teach_clear empties the list.
C21_TeachPlayInOrderUntilStopped ==
    [][/\ \A c \in Callers, i \in 1..(MaxTaught + 1) :
            StartsStep(c, i) =>
                /\ IF i = 1 THEN CallIdle(c) ELSE call[c].pc = "sleep" /\ call[c].i = i - 1
                /\ i = 1 \/ ~call[c].stop_seen
                /\ call'[c].cmd = MoveCmd(MapOutgoing(ClampToLimits(taught_positions[i].pos).v),
                                          ClampSpeed(call'[c].f))
       /\ \A c \in Callers, f \in TeachSpeeds :
            (TeachPlay(c, f) /\ taught_positions = <<>>) =>
                /\ call'[c].ret = FALSE
                /\ <<state, running, inflight, serial_lock, taught_positions>>' =
                   <<state, running, inflight, serial_lock, taught_positions>>
       /\ \A c \in Operator :
            TeachRecord(c) => SubSeq(taught_positions', 1, Len(taught_positions)) = taught_positions
                              /\ Len(taught_positions') = Len(taught_positions) + 1
       /\ \A c \in Operator : TeachClear(c) => taught_positions' = <<>>]_vars

(***************************************************************************)
(* send_gcode: a raw command of the console, remapped and exchanged.  The  *)
(* string it returns is the pair of its prefix ("error:" or none) and the  *)
(* text after it: a response, or the message of the exception.             *)
(***************************************************************************)
GcodeText(resp) == [prefix |-> "", text |-> resp]
GcodeError(text) == [prefix |-> "error:", text |-> text]

\* a result that hands every response through as it came
GcodeResultRaw(resp) == GcodeText(resp)

\* send_gcode(), lines 1305-1308
GcodeResult(resp) == IF ERROR_PATTERN(resp) THEN GcodeError(resp) ELSE GcodeText(resp)

\* send_gcode(), lines 1299-1303 and 1310-1311, up to the await of its exchange
SendGcode(c, cmd) ==
    /\ CallIdle(c)
    /\ IF serial_open
       THEN EnterSend(c, NewCall("send_gcode", "cmd"), RemapGcode(cmd), serial_lock, inflight)
       ELSE /\ Ret(c, "send_gcode", GcodeError(<<[k |-> "Nincs kapcsolat"]>>), Timeout)
            /\ UNCHANGED gateVars
    /\ UNCHANGED <<state, errVars, linkVars, bgVars, posVars, endVars, cfgVars, progVars,
                   rtask>>

\* send_gcode(), lines 1303-1308, after its exchange
SendGcodeResponse(c, resp) ==
    /\ Reading(c, "send_gcode", "cmd")
    /\ LeaveSend(c)
    /\ ReadResponse(resp)
    /\ Ret(c, "send_gcode", GcodeResult(resp), resp)
    /\ UNCHANGED <<state, errVars, linkVars, bgVars, joint_position, cartesian_position,
                   endVars, cfgVars, progVars, rtask>>

(***************************************************************************)
(* Console specification: one operator on a legacy device in one of the    *)
(* axis configurations, sending raw commands, homing, moving and jogging,  *)
(* also after the link was closed; the firmware answers with one line or   *)
(* with several.                                                           *)
(***************************************************************************)
InitGcode ==
    /\ Connected
    /\ use_grbl = FALSE
    /\ \E cfg \in AxisConfigs : Configured(cfg)
    /\ NoProgram
    /\ call = [c \in Callers |-> IdleCall]

XWord(v) == [g |-> "G1", words |-> [a \in {"X"} |-> v]]
XYWord(x, y) == [g |-> "G1", words |-> [a \in {"X", "Y"} |-> IF a = "X" THEN x ELSE y]]

GcodeInputs ==
    {PlainCmd("M114")} \cup {XWord(v) : v \in {0, 3 * MaxCoord}}
        \cup {XYWord(3 * MaxCoord, -3)}

GcodeResponses ==
    {Timeout, <<OkLine>>, <<InfoLine>>, <<ErrLimit>>, <<ErrUnrec>>,
     <<InfoLine, ErrLimit>>, <<ErrLimit, InfoLine>>, <<MoveLine(MaxCoord, 0, 0)>>}

NextGcode ==
    \/ \E c \in Operator, cmd \in GcodeInputs : SendGcode(c, cmd)
    \/ \E c \in Operator, resp \in GcodeResponses : SendGcodeResponse(c, resp)
    \/ \E c \in Operator : Home(c)
    \/ \E c \in Operator, resp \in GcodeResponses : HomeResponse(c, resp)
    \/ \E c \in Operator, tgt \in {[a \in Axes |-> 0]}, f \in {50} : MoveTo(c, tgt, f)
    \/ \E c \in Operator, resp \in GcodeResponses : MoveToResponse(c, resp)
    \/ \E c \in Operator, a \in {"X"}, d \in {1}, f \in {50} : Jog(c, a, d, f)
    \/ \E c \in Operator, resp \in GcodeResponses : JogResponse(c, resp)
    \/ \E c \in Operator, resp \in {Timeout, <<EndstopLine(FALSE, FALSE, FALSE)>>} :
            JogEndstopResponse(c, resp)
    \/ \E c \in Operator : Disconnect(c)
    \/ \E c \in Operator : Return(c)

SpecGcode == InitGcode /\ [][NextGcode]_vars

\* the command carries the words of cmd, each under the firmware letter of its
\* logical axis and with the value it came with
CarriesRemapped(sent, cmd) ==
    /\ sent.g = cmd.g
    /\ DOMAIN sent.words = {axis_map[l] : l \in DOMAIN cmd.words}
    /\ \A l \in DOMAIN cmd.words : sent.words[axis_map[l]] = cmd.words[l]

\* C22: send_gcode never changes the device state; on a firmware ERROR response
\* and on a closed link it returns a string beginning "error:", otherwise the
\* raw response; the command it writes is the remapped input, not clamped to
\* the soft limits.
C22_SendGcodeReturnsErrorPrefix ==
    [][\A c \in Operator :
        /\ \A cmd \in GcodeInputs :
             SendGcode(c, cmd) =>
                /\ state' = state
                /\ IF serial_open
                   THEN \E e \in inflight' \ inflight :
                            e.owner = CallerTask(c) /\ CarriesRemapped(e.cmd, cmd)
                   ELSE /\ call'[c].pc = "ret" /\ call'[c].ret.prefix = "error:"
                        /\ inflight' = inflight
        /\ \A resp \in GcodeResponses :
             SendGcodeResponse(c, resp) =>
                /\ state' = state
                /\ call'[c].pc = "ret"
                /\ call'[c].ret = IF IsErrorLine(resp)
                                  THEN [prefix |-> "error:", text |-> resp]
                                  ELSE [prefix |-> "", text |-> resp]]_vars

\* C22 happens: under the swapped axes with a soft limit on X, send_gcode has
\* returned the "error:" string for an ERROR response
C22_Witness ==
    \E c \in Operator :
        /\ call[c].op = "send_gcode" /\ call[c].pc = "ret"
        /\ call[c].ret.prefix = "error:" /\ IsErrorLine(call[c].resp)
        /\ axis_map = SwapXY /\ axis_limits["X"].set
        /\ state = "idle"

(***************************************************************************)
(* The axis helpers called on their own: _map_outgoing, _map_incoming and  *)
(* _clamp_to_limits.  A call record keeps the argument (arg) and the value *)
(* (ret); a call made on the value of the call before it also keeps the    *)
(* argument of that call (origin).  Values are exact: pairs of numerator   *)
(* and denominator.                                                        *)
(***************************************************************************)
Helper(op, arg, ret) == [op |-> op, pc |-> "ret", arg |-> arg, ret |-> ret, chained |-> FALSE]
Chained(op, arg, ret, origin) ==
    [op |-> op, pc |-> "ret", arg |-> arg, ret |-> ret, chained |-> TRUE, origin |-> origin]

HelperStep(c, rec) ==
    /\ call' = [call EXCEPT ![c] = rec]
    /\ UNCHANGED <<state, errVars, linkVars, bgVars, posVars, endVars, cfgVars, progVars,
                   gateVars, rtask>>

Exact(v) == [a \in Axes |-> Frac(v[a])]

\* _map_outgoing(x, y, z) called with whole ticks
MapOutgoingCall(c, v) ==
    /\ CallIdle(c)
    /\ HelperStep(c, Helper("_map_outgoing", Exact(v), MapOutgoingQ(Exact(v))))

\* _map_incoming(fw_x, fw_y, fw_z) called with whole ticks
MapIncomingCall(c, fw) ==
    /\ CallIdle(c)
    /\ HelperStep(c, Helper("_map_incoming", Exact(fw), MapIncomingQ(Exact(fw))))

\* _map_incoming called on what _map_outgoing returned
MapBack(c) ==
    /\ call[c].pc = "ret" /\ call[c].op = "_map_outgoing" /\ ~call[c].chained
    /\ HelperStep(c, Chained("_map_incoming", call[c].ret, MapIncomingQ(call[c].ret),
                             call[c].arg))

\* _map_outgoing called on what _map_incoming returned
MapForth(c) ==
    /\ call[c].pc = "ret" /\ call[c].op = "_map_incoming" /\ ~call[c].chained
    /\ HelperStep(c, Chained("_map_outgoing", call[c].ret, MapOutgoingQ(call[c].ret),
                             call[c].arg))

\* _clamp_to_limits(x, y, z)
ClampCall(c, v) ==
    /\ CallIdle(c)
    /\ HelperStep(c, Helper("_clamp_to_limits", v, ClampToLimits(v)))

\* _clamp_to_limits called on the values it returned
ClampAgain(c) ==
    /\ call[c].pc = "ret" /\ call[c].op = "_clamp_to_limits" /\ ~call[c].chained
    /\ HelperStep(c, Chained("_clamp_to_limits", call[c].ret.v, ClampToLimits(call[c].ret.v),
                             call[c].arg))

(***************************************************************************)
(* Axis specification: a device under any axis mapping, any inversion and  *)
(* some scales and soft limits, whose helpers are called with vectors      *)
(* around the limits.                                                      *)
(***************************************************************************)
Bijections == {m \in [Axes -> Axes] : \A a, b \in Axes : m[a] = m[b] => a = b}

ScaleChoices ==
    { NoScale, [a \in Axes |-> 2],
      [a \in Axes |-> IF a = "X" THEN 2 ELSE IF a = "Y" THEN -3 ELSE 0] }

LimitChoices == {NoLimits, Limits(-1, 1), LimitsOn({"X"}, -1, 1), LimitsOn({"Y", "Z"}, 0, 0)}

InitAxis ==
    /\ Connected
    /\ use_grbl = FALSE
    /\ \E m \in Bijections, inv \in [Axes -> BOOLEAN], sc \in ScaleChoices,
          lim \in LimitChoices :
            Configured([map |-> m, invert |-> inv, scale |-> sc, limits |-> lim])
    /\ NoProgram
    /\ call = [c \in Callers |-> IdleCall]

MapInputs ==
    {[a \in Axes |-> IF a = "X" THEN x ELSE IF a = "Y" THEN 2 ELSE -3] : x \in {0, 1, 6}}

ClampInputs ==
    {[a \in Axes |-> IF a = "X" THEN x ELSE IF a = "Y" THEN y ELSE 0] :
        x \in -2..2, y \in {-2, 0, 1}}

NextAxis ==
    \/ \E c \in Operator, v \in MapInputs : MapOutgoingCall(c, v)
    \/ \E c \in Operator, v \in MapInputs : MapIncomingCall(c, v)
    \/ \E c \in Operator : MapBack(c)
    \/ \E c \in Operator : MapForth(c)
    \/ \E c \in Operator, v \in ClampInputs : ClampCall(c, v)
    \/ \E c \in Operator : ClampAgain(c)
    \/ \E c \in Operator : Return(c)

SpecAxis == InitAxis /\ [][NextAxis]_vars

\* two exact values are the same number
SameQ(p, q) == p[1] * q[2] = q[1] * p[2]
SameVec(v, w) == \A a \in Axes : SameQ(v[a], w[a])

\* the exact value x divided by the scale s (as it is when s is 0), then negated
\* when inv
Outward(x, s, inv) ==
    LET q == IF s # 0 THEN <<x[1], x[2] * s>> ELSE x
    IN  IF inv THEN <<-q[1], q[2]>> ELSE q

\* C23: for every bijective axis mapping with its inverse as reverse map, every
\* combination of inversion flags and every scale, map_incoming(map_outgoing(v))
\* = v and map_outgoing(map_incoming(w)) = w; on the way out the value of
\* logical axis L, scaled and inverted by the settings of L, is carried by the
\* firmware letter of L.
C23_MappingRoundTrip ==
    \A c \in Operator :
        (call[c].pc = "ret" /\ call[c].op \in {"_map_outgoing", "_map_incoming"}) =>
            /\ call[c].chained => SameVec(call[c].ret, call[c].origin)
            /\ call[c].op = "_map_outgoing" =>
                \A l \in Axes :
                    SameQ(call[c].ret[axis_map[l]],
                          Outward(call[c].arg[l], axis_scale[l], axis_invert[l]))
            /\ call[c].op = "_map_incoming" =>
                \A l \in Axes :
                    SameQ(call[c].arg[axis_map[l]],
                          Outward(call[c].ret[l], axis_scale[l], axis_invert[l]))

\* C23 happens: a vector has gone out and come back under a mapping that moves
\* every axis, with an axis inverted and an axis scaled
C23_Witness ==
    \E c \in Operator :
        /\ call[c].pc = "ret" /\ call[c].op = "_map_incoming" /\ call[c].chained
        /\ \A a \in Axes : axis_map[a] # a
        /\ axis_invert["X"] /\ ~axis_invert["Y"]
        /\ axis_scale["Y"] = -3
        /\ call[c].origin["X"] = Frac(6)
        /\ ~SameVec(call[c].arg, call[c].origin)

Dist(x, y) == IF x < y THEN y - x ELSE x - y

\* C25: _clamp_to_limits works axis by axis: with a limit [lo, hi] configured
\* the value returned is the point of the interval nearest to the input and
\* the axis is reported exactly when the input was outside; without a limit
\* the value is returned as it came and the axis is never reported; applied
\* to its own result it returns the same values and reports nothing; it
\* changes no device state.
C25_ClampPerAxis ==
    /\ [](\A c \in Operator :
            (call[c].pc = "ret" /\ call[c].op = "_clamp_to_limits") =>
                /\ \A a \in Axes :
                     LET x == call[c].arg[a]
                         y == call[c].ret.v[a]
                         lim == axis_limits[a]
                     IN  IF lim.set
                         THEN /\ lim.lo <= y /\ y <= lim.hi
                              /\ \A z \in lim.lo..lim.hi : Dist(x, y) <= Dist(x, z)
                              /\ a \in call[c].ret.clamped <=> (x < lim.lo \/ x > lim.hi)
                         ELSE y = x /\ a \notin call[c].ret.clamped
                /\ call[c].chained =>
                     call[c].ret.v = call[c].arg /\ call[c].ret.clamped = {})
    /\ [][\A c \in Operator :
            (call'[c].op = "_clamp_to_limits" /\ call'[c] # call[c]) =>
                UNCHANGED <<state, errVars, linkVars, bgVars, posVars, endVars, cfgVars,
                            progVars, gateVars, rtask>>]_vars

\* C25 happens: a vector with X beyond its limit and Y without a limit has been
\* clamped, and the result clamped once more
C25_Witness ==
    \E c \in Operator :
        /\ call[c].pc = "ret" /\ call[c].op = "_clamp_to_limits" /\ call[c].chained
        /\ axis_limits["X"].set /\ ~axis_limits["Y"].set
        /\ call[c].origin["X"] = 2 /\ call[c].arg["X"] = 1
        /\ call[c].origin["Y"] = -2 /\ call[c].arg["Y"] = -2

\* ---------------------------------------------------------------------------
\* _remap_gcode on the text of a command line

\* a word of a command line: a letter and the text of its number. The text is
\* "plain" when -?\d+\.?\d* matches it whole (10, -2.5, 5.) and "bare" when
\* the pattern does not match at its start (.5, +5); ph marks a word that a
\* substitution has rewritten to its __<axis>__ placeholder
GWord(l, form, n) == [l |-> l, form |-> form, n |-> n, ph |-> FALSE]

\* the pattern <axis>(-?\d+\.?\d*) finds the word
AxisMatch(w, a) == w.l = a /\ w.form = "plain" /\ ~w.ph

\* re.search: the axes for which the line has a match
AxisValues(gcode) == {a \in Axes : \E i \in 1..Len(gcode) : AxisMatch(gcode[i], a)}

\* match.group(2) of the first match
FirstValue(gcode, a) ==
    gcode[CHOOSE i \in 1..Len(gcode) :
            AxisMatch(gcode[i], a) /\ \A j \in 1..(i - 1) : ~AxisMatch(gcode[j], a)].n

\* re.sub: every match of the axis becomes the placeholder of its firmware
\* axis followed by the first value
RemapSub(result, gcode, a) ==
    IF a \in AxisValues(gcode)
    THEN [i \in 1..Len(result) |->
            IF AxisMatch(result[i], a)
            THEN [l |-> axis_map[a], form |-> "plain", n |-> FirstValue(gcode, a), ph |-> TRUE]
            ELSE result[i]]
    ELSE result

\* the placeholders are replaced by the plain letters
Unplace(result) == [i \in 1..Len(result) |-> [result[i] EXCEPT !.ph = FALSE]]

remap_gcode(gcode) ==
    IF axis_map = IdentityMap \/ AxisValues(gcode) = {} THEN gcode
    ELSE Unplace(RemapSub(RemapSub(RemapSub(gcode, gcode, "X"), gcode, "Y"), gcode, "Z"))

\* _remap_gcode(gcode) called
RemapCall(c, gcode) ==
    /\ CallIdle(c)
    /\ HelperStep(c, Helper("_remap_gcode", gcode, remap_gcode(gcode)))

G1Word == GWord("G", "plain", 1)

GcodeTexts ==
    { <<G1Word>>,
      <<G1Word, GWord("X", "plain", 10), GWord("Y", "plain", 3), GWord("F", "plain", 50)>>,
      <<G1Word, GWord("Z", "plain", -2)>>,
      <<G1Word, GWord("X", "bare", 5), GWord("Y", "plain", 10)>>,
      <<G1Word, GWord("X", "plain", 10), GWord("X", "plain", 20)>> }

NextRemap ==
    \/ NextAxis
    \/ \E c \in Operator, g \in GcodeTexts : RemapCall(c, g)

SpecRemap == InitAxis /\ [][NextRemap]_vars

\* C24: the line _remap_gcode returns has the words of its input in their
\* places, a word of logical axis L under the letter axis_map[L] with its own
\* number, every other word as it was; with the identity map the line is
\* returned as it came.
C24_RemapKeepsValues ==
    \A c \in Operator :
        (call[c].pc = "ret" /\ call[c].op = "_remap_gcode") =>
            LET in == call[c].arg
                out == call[c].ret
            IN  /\ Len(out) = Len(in)
                /\ \A i \in 1..Len(in) :
                     IF in[i].l \in Axes
                     THEN out[i] = [in[i] EXCEPT !.l = axis_map[in[i].l]]
                     ELSE out[i] = in[i]
                /\ axis_map = IdentityMap => out = in

\* ---------------------------------------------------------------------------
\* inverse_kinematics and forward_kinematics as functions of the distance
\* between the shoulder and the target.  The targets lie on the horizontal
\* line through the shoulder (alpha = atan2(h, r) = 0).

\* a distance: whole millimetres and ten-thousandths of a millimetre
Fine(n, s) == [mm |-> n, sub |-> s]
Mm(n) == Fine(n, 0)
Below(p, q) == p.mm < q.mm \/ (p.mm = q.mm /\ p.sub < q.sub)

\* the 0.001 of lines 142 and 145
ReachEps == Fine(0, 10)

JointAngles(error, pose) == [valid |-> error = "", error |-> error, pose |-> pose]

\* the reach tests, lines 139-146, and the kind of angles returned: (0, 0)
\* with an error, the fold (90, -90), or the solution of lines 148-181
IkReach(d) ==
    IF Below(Mm(MaxReach), d) THEN JointAngles("Tul messze", "zero")
    ELSE IF Below(d, Mm(MinReach)) /\ Below(ReachEps, d) THEN JointAngles("Tul kozel", "zero")
    ELSE IF Below(d, ReachEps) THEN JointAngles("", "fold")
    ELSE JointAngles("", "solved")

\* the cosine of the angle at the shoulder of the triangle with sides L2, L3
\* and d, by the law of cosines
ShoulderCos(d) == <<L2 * L2 + d * d - L3 * L3, 2 * L2 * d>>

\* beta = asin(sin_beta), lines 170-172: sin_beta is the sine of the angle at
\* the shoulder, and asin returns the angle between 0 and 90 degrees with
\* that sine, whose cosine is the absolute value of the triangle's
BetaCos(d) == <<AbsVal(ShoulderCos(d)[1]), ShoulderCos(d)[2]>>

\* forward_kinematics of the solved angles (j2 = +-beta, j3 = -+(pi - inner)):
\* the elbow angle is the triangle's, so the gripper is at distance d from
\* the shoulder, on the line turned from the target line by the difference
\* of the two angles beta; its distance from the target is the chord
\* d * (cos beta - cos of the triangle's angle), an exact fraction of mm
RoundTripMiss(d) == <<d * (BetaCos(d)[1] - ShoulderCos(d)[1]), ShoulderCos(d)[2]>>

\* inverse_kinematics(x, y, z, elbow_up) of a target at distance d
IkCall(c, d, elbow_up) ==
    /\ CallIdle(c)
    /\ HelperStep(c, Helper("inverse_kinematics", [d |-> d, elbow_up |-> elbow_up], IkReach(d)))

\* forward_kinematics of the angles inverse_kinematics has solved for a
\* target a whole number of millimetres away
FkOfIk(c) ==
    /\ call[c].pc = "ret" /\ call[c].op = "inverse_kinematics" /\ ~call[c].chained
    /\ call[c].ret.pose = "solved" /\ call[c].arg.d.sub = 0
    /\ HelperStep(c, Chained("forward_kinematics", call[c].ret,
                             [miss |-> RoundTripMiss(call[c].arg.d.mm)], call[c].arg))

IkDistances ==
    {Mm(n) : n \in 0..(MaxReach + 5)}
        \cup {Fine(0, s) : s \in {5, 10, 20}}
        \cup {Fine(MinReach - 1, 9999), Fine(MinReach, 1), Fine(MaxReach, 1)}

NextIk ==
    \/ \E c \in Operator, d \in IkDistances, up \in BOOLEAN : IkCall(c, d, up)
    \/ \E c \in Operator : FkOfIk(c)
    \/ \E c \in Operator : Return(c)

SpecIk == InitXyz /\ [][NextIk]_vars

\* C26: inverse_kinematics answers "too far" exactly for d > L2 + L3, "too
\* close" exactly for a non-zero d below |L2 - L3|, the valid fold at d = 0,
\* and a valid solution only for d from |L2 - L3| to L2 + L3.
C26_IkClassifiesByReach ==
    \A c \in Operator :
        (call[c].pc = "ret" /\ call[c].op = "inverse_kinematics") =>
            LET d == call[c].arg.d
                r == call[c].ret
            IN  /\ r.error = "Tul messze" <=> Below(Mm(MaxReach), d)
                /\ r.error = "Tul kozel" <=> (d # Mm(0) /\ Below(d, Mm(MinReach)))
                /\ r.valid <=> r.error = ""
                /\ d = Mm(0) => r.valid /\ r.pose = "fold"
                /\ (r.valid /\ d # Mm(0)) =>
                      r.pose = "solved" /\ ~Below(d, Mm(MinReach)) /\ ~Below(Mm(MaxReach), d)

\* C27: for a target strictly between |L2 - L3| and L2 + L3 from the shoulder
\* and either elbow branch, forward_kinematics of the angles that
\* inverse_kinematics returns is within 0.1 mm of the target.
C27_FkOfIkReproducesTarget ==
    \A c \in Operator :
        (call[c].pc = "ret" /\ call[c].op = "forward_kinematics"
            /\ Below(Mm(MinReach), call[c].origin.d) /\ Below(call[c].origin.d, Mm(MaxReach))) =>
                10 * call[c].ret.miss[1] <= call[c].ret.miss[2]

\* ---------------------------------------------------------------------------
\* load_file.  A line of the file is the sequence of its pieces: a word
\* ("G1", "X1"), a blank "sp", or one of the characters ";", "(", ")".  In the
\* behaviours of SpecLoad _gcode_lines holds the lines as such texts.

\* str.strip()
RECURSIVE StripLeft(_)
StripLeft(t) == IF t # <<>> /\ Head(t) = "sp" THEN StripLeft(Tail(t)) ELSE t

RECURSIVE StripRight(_)
StripRight(t) ==
    IF t # <<>> /\ t[Len(t)] = "sp" THEN StripRight(SubSeq(t, 1, Len(t) - 1)) ELSE t

Strip(t) == StripRight(StripLeft(t))

Has(t, ch) == \E i \in 1..Len(t) : t[i] = ch

FirstAt(t, ch) == CHOOSE i \in 1..Len(t) : t[i] = ch /\ \A j \in 1..(i - 1) : t[j] # ch

\* line.split(";")[0]
BeforeSemicolon(t) == SubSeq(t, 1, FirstAt(t, ";") - 1)

\* re.sub(r"\([^)]*\)", "", line): from left to right, an opening parenthesis
\* with a closing one after it is removed together with everything up to the
\* first closing one
RECURSIVE RemoveParenthetical(_)
RemoveParenthetical(t) ==
    IF t = <<>> THEN <<>>
    ELSE IF Head(t) = "(" /\ Has(Tail(t), ")")
         THEN RemoveParenthetical(SubSeq(t, FirstAt(t, ")") + 1, Len(t)))
         ELSE <<Head(t)>> \o RemoveParenthetical(Tail(t))

\* a cleaning that knows only the ';' comments
CleanLineSemicolonOnly(t) ==
    IF Has(Strip(t), ";") THEN Strip(BeforeSemicolon(Strip(t))) ELSE Strip(t)

\* the body of the loop, lines 1322-1327
CleanLine(t) ==
    LET a == Strip(t)
        b == IF Has(a, ";") THEN Strip(BeforeSemicolon(a)) ELSE a
    IN  IF Has(b, "(") THEN Strip(RemoveParenthetical(b)) ELSE b

\* the loop of lines 1320-1329: the cleaned lines that are not empty
RECURSIVE CleanLines(_)
CleanLines(lines) ==
    IF lines = <<>> THEN <<>>
    ELSE (IF CleanLine(Head(lines)) # <<>> THEN <<CleanLine(Head(lines))>> ELSE <<>>)
            \o CleanLines(Tail(lines))

Readable(lines) == [readable |-> TRUE, lines |-> lines]
Unreadable == [readable |-> FALSE, lines |-> <<>>]

\* load_file(filepath); file is what open() and readlines() give for the path
LoadFile(c, file) ==
    /\ CallIdle(c)
    /\ call' = [call EXCEPT ![c] = Helper("load_file", file, file.readable)]
    /\ IF file.readable
       THEN /\ gcode_lines' = CleanLines(file.lines)
            /\ current_line_index' = 0
            /\ status_total_lines' = Len(CleanLines(file.lines))
            /\ status_current_line' = 0
            /\ status_progress' = 0
            /\ UNCHANGED <<state, errVars, taught_positions, running, paused, run_task>>
       ELSE /\ SetError(ErrorMsg("load", "open"))
            /\ state' = SetErrorState
            /\ UNCHANGED progVars
    /\ UNCHANGED <<linkVars, bgVars, posVars, endVars, cfgVars, gateVars, rtask>>

\* the file lines the behaviours load
FileLines ==
    { <<>>, <<"sp">>,
      <<"G1", "sp", "X1">>,
      <<"sp", "G1", "sp", ";", "X1">>,
      <<";", "G1">>,
      <<"(", "X1", ")">>,
      <<"G1", "(", "X1", ")", "X1">>,
      <<"G1", "sp", "(", "(", "X1", ")", "sp", "X1", ")">>,
      <<"(", "X1", ")", "G1", "(", ")", ";", "(">>,
      <<"G1", "(", ";", ")", "X1">>,
      <<"G1", "(", "X1">> }

Files ==
    {Unreadable} \cup {Readable(<<>>)} \cup {Readable(<<l>>) : l \in FileLines}
        \cup {Readable(<<l, m>>) : l \in FileLines, m \in {<<"sp">>, <<"G1", "(", "X1", ")", "X1">>}}

\* a program loaded earlier and run up to line k
LoadedText(k) ==
    /\ gcode_lines = <<<<"G1">>, <<"G1", "sp", "X1">>>>
    /\ status_total_lines = 2
    /\ taught_positions = <<>>
    /\ current_line_index = k
    /\ status_current_line = k
    /\ status_progress = Progress(k, 2)

InitLoad ==
    /\ Connected
    /\ use_grbl = FALSE
    /\ DefaultConfig
    /\ \/ NoProgram /\ current_line_index = 0 /\ status_progress = 0 /\ status_current_line = 0
       \/ \E k \in 0..2 : LoadedText(k)
    /\ call = [c \in Callers |-> IdleCall]

NextLoad ==
    \/ \E c \in Operator, f \in Files : LoadFile(c, f)
    \/ \E c \in Operator : Reset(c)
    \/ \E c \in Operator : Return(c)

SpecLoad == InitLoad /\ [][NextLoad]_vars

\* the pieces of a line outside its comments: before the first ';' and not
\* between an opening parenthesis and the first closing one after it
InParenthetical(t, i) ==
    \E k \in 1..i, m \in i..Len(t) :
        t[k] = "(" /\ t[m] = ")" /\ k < m /\ \A n \in (k + 1)..(m - 1) : t[n] # ")"

Code(t) ==
    LET s == Strip(t)
        p == IF Has(s, ";") THEN Strip(BeforeSemicolon(s)) ELSE s
        marked == [i \in 1..Len(p) |-> [at |-> i, piece |-> p[i]]]
        kept == SelectSeq(marked, LAMBDA e : ~InParenthetical(p, e.at))
    IN  Strip([i \in 1..Len(kept) |-> kept[i].piece])

\* C28: after load_file returned True the program is the file's lines, in
\* order, that have something outside their comments, each without its
\* comments, total_lines is their number and the cursor, current_line and
\* progress are 0; a load_file of a file that cannot be read returns False,
\* leaves Alarm with a message and does not touch the program, the cursor or
\* total_lines.
C28_LoadFileKeepsCode ==
    /\ [](\A c \in Operator :
            (call[c].pc = "ret" /\ call[c].op = "load_file") =>
                LET f == call[c].arg
                    code == [i \in 1..Len(f.lines) |-> Code(f.lines[i])]
                IN  /\ call[c].ret = f.readable
                    /\ f.readable =>
                        /\ gcode_lines = SelectSeq(code, LAMBDA t : t # <<>>)
                        /\ status_total_lines = Len(gcode_lines)
                        /\ current_line_index = 0
                        /\ status_current_line = 0
                        /\ status_progress = 0
                    /\ ~f.readable => state = "alarm" /\ error_message # NoError)
    /\ [][\A c \in Operator :
            (call'[c] # call[c] /\ call'[c].op = "load_file" /\ call'[c].ret = FALSE) =>
                UNCHANGED <<gcode_lines, current_line_index, status_total_lines>>]_vars

\* C28 happens: a file of a line of comments only and a line with a comment
\* inside has been loaded
C28_Witness ==
    \E c \in Operator :
        /\ call[c].pc = "ret" /\ call[c].op = "load_file" /\ call[c].ret = TRUE
        /\ call[c].arg.lines = <<<<"(", "X1", ")">>, <<"G1", "(", "X1", ")", "X1">>>>
        /\ gcode_lines = <<<<"G1", "X1">>>>
        /\ status_total_lines = 1

\* ---------------------------------------------------------------------------
\* _set_error and reset

\* _set_error(message) called by itself; the record keeps the message it replaced
SetErrorCall(c, msg) ==
    /\ CallIdle(c)
    /\ SetError(msg)
    /\ state' = SetErrorState
    /\ call' = [call EXCEPT ![c] = Helper("_set_error", msg, error_message)]
    /\ UNCHANGED <<linkVars, bgVars, posVars, endVars, cfgVars, progVars, gateVars, rtask>>

TestMessages == {ErrorMsg("test", "a"), ErrorMsg("test", "b")}

NextError ==
    \/ NextHoming
    \/ \E c \in Operator, msg \in TestMessages : SetErrorCall(c, msg)

SpecError == InitHoming /\ [][NextError]_vars

\* a step that raises an error or clears one
ErrorStep == error_message' # error_message \/ on_error' # on_error

\* C29: error_message is the message of the latest _set_error unless a reset()
\* came after it, and None after reset(); a step that raises an error hands
\* that message to on_error and ends in Alarm; reset() ends in Idle.
C29_ErrorMessageIsLatest ==
    /\ [](error_message = NoError \/ error_message = on_error)
    /\ [][ErrorStep =>
            IF error_message' = NoError
            THEN state' = "idle" /\ on_error' = on_error
            ELSE error_message' = on_error' /\ state' = "alarm"]_vars
    /\ [][\A c \in Operator :
            (call'[c] # call[c] /\ call'[c].op = "_set_error") =>
                error_message' = call'[c].arg /\ on_error' = call'[c].arg]_vars
    /\ [][(\E c \in Operator : Reset(c)) => error_message' = NoError /\ state' = "idle"]_vars

\* C29 happens: _set_error has replaced the message of an earlier error
C29_Witness ==
    \E c \in Operator :
        /\ call[c].pc = "ret" /\ call[c].op = "_set_error"
        /\ call[c].ret # NoError /\ call[c].ret # call[c].arg
        /\ error_message = call[c].arg /\ state = "alarm"

\* the part of C29 about the message alone, which also holds while a program
\* is played
C29_MessageKept ==
    /\ [](error_message = NoError \/ error_message = on_error)
    /\ [][ErrorStep =>
            IF error_message' = NoError
            THEN state' = "idle" /\ on_error' = on_error
            ELSE error_message' = on_error']_vars

\* a response with a line that begins ERROR:
HasErrorLine(resp) == KindAt(resp, "err") # {}

\* C30: when the response consumed by home, move_to, jog or send_gcode has an
\* ERROR: line, alone or with other lines before or after it, home, move_to
\* and jog return False and send_gcode returns the "error:" string.
C30_ErrorLineAnywhereIsDetected ==
    [][\A c \in Operator, resp \in GcodeResponses :
        HasErrorLine(resp) =>
            /\ HomeResponse(c, resp) => call'[c].ret = FALSE
            /\ MoveToResponse(c, resp) => call'[c].ret = FALSE
            /\ JogResponse(c, resp) => call'[c].pc = "ret" /\ call'[c].ret = FALSE
            /\ SendGcodeResponse(c, resp) => call'[c].ret.prefix = "error:"]_vars

(***************************************************************************)
(* Order and cancellation on the serial gate.                              *)
(***************************************************************************)
\* the commands written in this step
NewlyWritten == {e \in inflight' \ inflight : e.live}

\* the writer held no later place in the queue of the gate than anybody else
WrittenInTurn ==
    \A e \in NewlyWritten :
        serial_lock.waiters = <<>> \/ Head(serial_lock.waiters) = e.owner

\* C31: commands are written in the order in which their tasks asked for the
\* gate: a command is written only by the task that asked first among those
\* waiting, and only after the response of every command written before it
\* has been consumed.
C31_WritesInRequestOrder ==
    [][(NewlyWritten # {}) => (WrittenInTurn /\ inflight = {})]_vars

\* the part of C31 about the queue alone
C31_NoOvertaking == [][WrittenInTurn]_vars

\* C32: a program line whose command has been written is read to its end: the
\* run task leaves the read of its response only with the response consumed,
\* never by a cancellation, also when stop() or run() was called meanwhile.
C32_ExchangeRunsToItsEnd ==
    [][\A r \in Runs :
        rtask[r].pc = "read" =>
            /\ rtask'[r].pc # "cancelled"
            /\ rtask'[r].pc # "read" => \A e \in inflight' : e.live \/ e \in inflight]_vars

\* a run task that lives and has no cancellation pending
Active(r) == Alive(r) /\ ~rtask[r].cancel

\* C33: at most one run loop is active, and whenever one is active _run_task
\* refers to it.
C33_OneRunLoop ==
    /\ Cardinality({r \in Runs : Active(r)}) <= 1
    /\ \A r \in Runs : Active(r) => run_task = r

\* no connect(), disconnect() or reconnect() call and no diagnostic request is
\* under way
LinkAtRest ==
    /\ \A c \in Operator : call[c].op = "connect" => call[c].pc = "ret"
    /\ \A s \in Sessions : ~InSession(s)

\* C34: while the link is at rest, a connected device has a live poll task,
\* and _status_polling is true only while a poll task is running.
C34_PollingFollowsConnection ==
    LinkAtRest =>
        /\ connected => status_polling /\ PollRunning
        /\ status_polling => PollRunning

\* C35: while no connect() is under way, the device is unconnected exactly
\* when its state is Disconnected.
C35_DisconnectedIffNotConnected ==
    (\A c \in Operator : call[c].op = "connect" => call[c].pc = "ret") =>
        (~connected <=> state = "disconnected")

(***************************************************************************)
(* The read loop of _read_response_unlocked, turn by turn.  A turn is one  *)
(* pass through the body of "while True"; what the port has for it is an   *)
(* input: a line matching INFO: or ERROR:, another line, a blank line,     *)
(* or nothing.  got keeps the first MaxRead lines collected, late tells    *)
(* that the timeout has elapsed on the clock, turn changes with every      *)
(* pass.                                                                   *)
(***************************************************************************)
MaxRead == 2

InLoop(c) == call[c].pc = "read" /\ "got" \in DOMAIN call[c]

Collect(got, line) == IF Len(got) < MaxRead THEN Append(got, line) ELSE got

\* lines 559-561: response_lines = [], start_time = now
ReadStart(c) ==
    /\ Reading(c, "send_gcode", "cmd") /\ ~InLoop(c)
    /\ call' = [call EXCEPT ![c] = call[c] @@ [got |-> <<>>, late |-> FALSE, turn |-> FALSE]]
    /\ UNCHANGED <<state, errVars, linkVars, bgVars, posVars, endVars, cfgVars, progVars,
                   gateVars, rtask>>

\* the loop goes round with the lines got
ReadAgain(c, got) ==
    /\ call' = [call EXCEPT ![c].got = got, ![c].turn = ~call[c].turn]
    /\ UNCHANGED <<state, errVars, linkVars, bgVars, posVars, endVars, cfgVars, progVars,
                   gateVars, rtask>>

\* lines 594-595: the test of the timeout at the end of the body
ReadTimeoutTest(c, got) ==
    IF call[c].late THEN SendGcodeResponse(c, got) ELSE ReadAgain(c, got)

\* a body in which every line goes on to the test of the timeout
ReadTurnAlwaysTested(c, avail, more) ==
    /\ InLoop(c)
    /\ CASE avail \in {"info", "err"} ->
              ReadTimeoutTest(c, Collect(call[c].got, IF avail = "info" THEN InfoLine ELSE ErrLimit))
         [] avail = "other" -> ReadTimeoutTest(c, Collect(call[c].got, OkLine))
         [] avail = "blank" -> ReadTimeoutTest(c, call[c].got)
         [] avail = "none" ->
              IF call[c].got # <<>> /\ ~more THEN SendGcodeResponse(c, call[c].got)
              ELSE ReadTimeoutTest(c, call[c].got)

\* one pass through the body, lines 563-595
ReadTurn(c, avail, more) ==
    /\ InLoop(c)
    /\ CASE avail \in {"info", "err"} ->
              \* lines 578-581: sleep and continue
              ReadAgain(c, Collect(call[c].got, IF avail = "info" THEN InfoLine ELSE ErrLimit))
         [] avail = "other" -> ReadTimeoutTest(c, Collect(call[c].got, OkLine))
         [] avail = "blank" -> ReadTimeoutTest(c, call[c].got)
         [] avail = "none" ->
              \* lines 584-592: more is the second look at in_waiting
              IF call[c].got # <<>> /\ ~more THEN SendGcodeResponse(c, call[c].got)
              ELSE ReadTimeoutTest(c, call[c].got)

\* the clock passes start_time + timeout
TimeoutElapses(c) ==
    /\ InLoop(c) /\ ~call[c].late
    /\ call' = [call EXCEPT ![c].late = TRUE]
    /\ UNCHANGED <<state, errVars, linkVars, bgVars, posVars, endVars, cfgVars, progVars,
                   gateVars, rtask>>

Available == {"info", "err", "other", "blank", "none"}

NextRead ==
    \/ \E c \in Callers : SendGcode(c, PlainCmd("M114"))
    \/ \E c \in Callers : CallGate(c)
    \/ \E c \in Callers : ReadStart(c)
    \/ \E c \in Callers, avail \in Available, more \in BOOLEAN : ReadTurn(c, avail, more)
    \/ \E c \in Callers : TimeoutElapses(c)
    \/ \E c \in Callers : Return(c)

\* the event loop runs every task that can run, and time passes
ReadFairness ==
    \A c \in Callers :
        /\ WF_vars(CallGate(c))
        /\ WF_vars(ReadStart(c))
        /\ WF_vars(\E avail \in Available, more \in BOOLEAN : ReadTurn(c, avail, more))
        /\ WF_vars(TimeoutElapses(c))

SpecRead == InitDiag /\ [][NextRead]_vars /\ ReadFairness

\* C36: every exchange ends and releases the gate, whatever the device sends:
\* a caller that is reading a response or waiting for the gate gets its
\* result at last.
C36_EveryExchangeEnds ==
    \A c \in Callers : (call[c].pc \in {"lockwait", "read"}) ~> (call[c].pc = "ret")

\* C37: move_to_xyz_linear returns true only if every move it issued
\* succeeded; in particular a call whose last move_to_joints failed on a
\* firmware error does not return true.
C37_TrueOnlyIfMovesSucceeded ==
    [][\A c \in Operator :
        (Reading(c, "move_to_xyz_linear", "move") /\ call'[c].pc = "ret" /\ call'[c].ret)
            => ~JointMoveFailed(call'[c].resp)]_vars

(***************************************************************************)
(* EndstopTest.run_test and MotionTest.run_test.  The test runs in a       *)
(* worker thread while the request of the bridge server holds the gate;    *)
(* cancel_test sets its stop event from the event loop, at any point       *)
(* between two statements of the thread.  The record of the thread holds   *)
(* the event (stop), the place in run_test (stage, i, s, dir, steps,       *)
(* back), the local cancelled, the results appended to the report and      *)
(* seen: whether a test of the event by the thread found it set.  A        *)
(* _send is four steps: its tests, its write, the end of                   *)
(* _read_response, and the statement after it.                             *)
(***************************************************************************)
MaxAxes == 2
MaxSpeeds == 2
\* max_search_angle / step_size: the passes of a search loop
MaxProbe == 2

TestOps == {"endstop_test", "motion_test"}
IsTest(rec) == rec.op \in TestOps
TestAxes == <<"X", "Y", "Z">>

NewTest(op, n, speeds) ==
    [op |-> op, pc |-> "check", stage |-> "zero", cmd |-> PlainCmd("G92"), resp |-> Timeout,
     stop |-> FALSE, seen |-> FALSE, n |-> n, speeds |-> speeds, i |-> 1, s |-> 1,
     dir |-> "pos", steps |-> 0, back |-> 0, ok_fwd |-> FALSE,
     cancelled |-> FALSE, completed |-> FALSE, results |-> 0]

\* the call of _send(command)
TestSend(rec, stage, g) == [rec EXCEPT !.pc = "check", !.stage = stage, !.cmd = PlainCmd(g)]

\* run_test returns the report
TestReport(rec, completed) == [rec EXCEPT !.pc = "ret", !.completed = completed]

\* a test of the stop event by the thread
SeesStop(rec) == [rec EXCEPT !.seen = TRUE]

\* EndstopTest.run_test lines 312-319: back home, completed = not cancelled
EndstopGoHome(rec) == TestSend(rec, "g90", "G90")

\* EndstopTest._test_axis: the three commands of the fast way home
FastHome(rec) == TestSend(SeesStop(rec), "fast_g90", "G90")

RECURSIVE EndstopAxisLoop(_), EndstopSearchLoop(_)

\* EndstopTest._test_axis returns its result (lines 323-324 of run_test)
EndstopAxisDone(rec) == EndstopAxisLoop([rec EXCEPT !.results = @ + 1, !.i = @ + 1])

\* lines 410-420, 479-487: the moves back to zero, then the other direction
EndstopBackLoop(rec) ==
    IF rec.back = 0
    THEN IF rec.dir = "pos"
         THEN EndstopSearchLoop([rec EXCEPT !.dir = "neg", !.steps = 0])
         ELSE EndstopAxisDone(rec)
    ELSE IF rec.stop THEN FastHome(rec)
    ELSE TestSend([rec EXCEPT !.back = @ - 1], "back", "G1")

\* lines 402-409, 472-476: the search has ended
EndstopBackPhase(rec) ==
    IF rec.stop THEN FastHome(rec) ELSE EndstopBackLoop([rec EXCEPT !.back = rec.steps])

\* lines 359-366, 432-439: the top of a search loop
EndstopSearchLoop(rec) ==
    IF rec.steps >= MaxProbe THEN EndstopBackPhase(rec)
    ELSE IF rec.stop THEN EndstopBackPhase(SeesStop(rec))
    ELSE TestSend(rec, "move", "G1")

\* EndstopTest.run_test lines 299-310: the top of the loop over the axes
EndstopAxisLoop(rec) ==
    IF rec.i > rec.n THEN EndstopGoHome(rec)
    ELSE IF rec.stop THEN EndstopGoHome([SeesStop(rec) EXCEPT !.cancelled = TRUE])
    ELSE EndstopSearchLoop([rec EXCEPT !.dir = "pos", !.steps = 0])

\* _check_endstops lines 226-233: the bit of the axis in the M119 answer
EndstopHit(resp, axis) == \E j \in KindAt(resp, "endstop") : resp[j][axis]

\* the statement of EndstopTest after the _send that has returned
EndstopAfter(rec) ==
    CASE rec.stage = "zero" ->
            IF HasErrorLine(rec.resp) THEN TestReport(rec, FALSE)
            ELSE TestSend(rec, "rel", "G91")
      [] rec.stage = "rel" -> EndstopAxisLoop(rec)
      [] rec.stage = "move" ->
            IF HasErrorLine(rec.resp) THEN EndstopBackPhase(rec)
            ELSE TestSend([rec EXCEPT !.steps = @ + 1], "endstops", "M119")
      [] rec.stage = "endstops" ->
            IF EndstopHit(rec.resp, TestAxes[rec.i]) THEN EndstopBackPhase(rec)
            ELSE EndstopSearchLoop(rec)
      [] rec.stage = "back" -> EndstopBackLoop(rec)
      [] rec.stage = "fast_g90" -> TestSend(rec, "fast_move", "G1")
      [] rec.stage = "fast_move" -> TestSend(rec, "fast_g91", "G91")
      [] rec.stage = "fast_g91" -> EndstopAxisDone(rec)
      [] rec.stage = "g90" -> TestSend(rec, "home", "G1")
      [] rec.stage = "home" -> TestReport(rec, ~rec.cancelled)

RECURSIVE MotionSpeedLoop(_)

\* MotionTest.run_test lines 258-262: the top of the loop over the axes
MotionAxisLoop(rec) ==
    IF rec.i > rec.n THEN MotionSpeedLoop([rec EXCEPT !.s = @ + 1])
    ELSE IF rec.stop
         THEN MotionSpeedLoop([SeesStop(rec) EXCEPT !.cancelled = TRUE, !.s = @ + 1])
    ELSE TestSend(rec, "fwd", "G1")

\* MotionTest.run_test lines 249-254 and 283-298: the top of the loop over
\* the speeds, and the report after it
MotionSpeedLoop(rec) ==
    IF rec.s > rec.speeds THEN TestReport(rec, ~rec.cancelled)
    ELSE IF rec.stop THEN TestReport([SeesStop(rec) EXCEPT !.cancelled = TRUE], FALSE)
    ELSE MotionAxisLoop([rec EXCEPT !.i = 1])

\* the statement of MotionTest after the _send that has returned
MotionAfter(rec) ==
    CASE rec.stage = "zero" -> MotionSpeedLoop(rec)
      [] rec.stage = "fwd" ->
            TestSend([rec EXCEPT !.ok_fwd = HasMove(rec.resp)], "backw", "G1")
      [] rec.stage = "backw" ->
            MotionAxisLoop([rec EXCEPT !.results = @ + 1, !.i = @ + 1])

testFrame == <<state, errVars, linkVars, bgVars, posVars, endVars, cfgVars, progVars,
               serial_lock, rtask>>

\* the bridge server starts the test in its thread: run_with_serial, run_test
\* up to the first _send
RunTest(c, op, n, speeds) ==
    /\ CallIdle(c)
    /\ call' = [call EXCEPT ![c] = NewTest(op, n, speeds)]
    /\ UNCHANGED <<testFrame, inflight>>

\* cancel_test(): stop_event.set()
CancelTest(c) ==
    /\ IsTest(call[c]) /\ call[c].pc # "ret" /\ ~call[c].stop
    /\ call' = [call EXCEPT ![c].stop = TRUE]
    /\ UNCHANGED <<testFrame, inflight>>

\* _send lines 179-183, _send_timed lines 125-128: the port and the event
TestSendCheck(c) ==
    /\ IsTest(call[c]) /\ call[c].pc = "check"
    /\ call' = [call EXCEPT ![c] =
                  IF ~serial_open THEN [@ EXCEPT !.pc = "resume", !.resp = Timeout]
                  ELSE IF @.stop THEN [SeesStop(@) EXCEPT !.pc = "resume", !.resp = Timeout]
                  ELSE [@ EXCEPT !.pc = "write"]]
    /\ UNCHANGED <<testFrame, inflight>>

\* _send lines 185-188: reset_input_buffer, write, flush; flushed tells
\* whether the answers still on their way were in the buffer by then
TestSendWrite(c, flushed) ==
    /\ IsTest(call[c]) /\ call[c].pc = "write"
    /\ inflight' = Written(IF flushed THEN {} ELSE inflight, CallerTask(c), call[c].cmd)
    /\ call' = [call EXCEPT ![c].pc = "read"]
    /\ UNCHANGED testFrame

\* _read_response lines 196-221 ends: on the event with nothing read, else
\* with the answer or at the deadline
TestSendRead(c, resp) ==
    /\ IsTest(call[c]) /\ call[c].pc = "read"
    /\ call[c].stop => resp = Timeout
    /\ inflight' = IF resp = Timeout THEN Abandoned(inflight, CallerTask(c))
                   ELSE Consumed(inflight, CallerTask(c))
    /\ call' = [call EXCEPT ![c] =
                  [(IF @.stop THEN SeesStop(@) ELSE @) EXCEPT !.pc = "resume", !.resp = resp]]
    /\ UNCHANGED testFrame

\* the thread goes on after the _send, up to its next _send or to its return
TestResume(c) ==
    /\ IsTest(call[c]) /\ call[c].pc = "resume"
    /\ call' = [call EXCEPT ![c] =
                  IF @.op = "endstop_test" THEN EndstopAfter(@) ELSE MotionAfter(@)]
    /\ UNCHANGED <<testFrame, inflight>>

TestResponses ==
    {Timeout, <<InfoLine>>, <<ErrLimit>>, <<MoveLine(0, 0, 0)>>,
     <<EndstopLine(TRUE, FALSE, FALSE)>>, <<EndstopLine(FALSE, TRUE, FALSE)>>}

NextTest ==
    \/ \E c \in Operator, op \in TestOps, n \in 1..MaxAxes, speeds \in 1..MaxSpeeds :
            RunTest(c, op, n, speeds)
    \/ \E c \in Operator : CancelTest(c)
    \/ \E c \in Operator : TestSendCheck(c)
    \/ \E c \in Operator, flushed \in BOOLEAN : TestSendWrite(c, flushed)
    \/ \E c \in Operator, resp \in TestResponses : TestSendRead(c, resp)
    \/ \E c \in Operator : TestResume(c)
    \/ \E c \in Operator : Return(c)

SpecTest == InitDiag /\ [][NextTest]_vars

\* C38: a test whose thread has found the stop event set reports
\* completed = false.
C38_StopMeansNotCompleted ==
    \A c \in Operator :
        (IsTest(call[c]) /\ call[c].pc = "ret" /\ call[c].seen) => ~call[c].completed

\* the part of C38 about the axes: completed = true tells that every
\* requested axis, or every pair of a speed and an axis, has its result
C38_CompletedMeansAllTested ==
    \A c \in Operator :
        (IsTest(call[c]) /\ call[c].pc = "ret" /\ call[c].completed) =>
            call[c].results =
                (IF call[c].op = "endstop_test" THEN call[c].n ELSE call[c].n * call[c].speeds)

\* the part of C38 about the wire: no command is written once the event is set
C38_NoWriteAfterStop ==
    [][\A c \in Operator :
        (IsTest(call[c]) /\ call[c].pc = "write" /\ call'[c].pc = "read") => ~call[c].stop]_vars

(***************************************************************************)
(* GrblDevice: a command exchange (_send_command, _read_response) and a    *)
(* status query (get_status, called by _poll_status and by the bridge      *)
(* server) on one port.  The exchange takes _write_lock and _read_lock,    *)
(* the query takes _status_lock: with one exchange and one query at a      *)
(* time no lock is ever waited for, so the locks do not appear.  inflight  *)
(* holds what was written and whose reply line no readline has taken yet;  *)
(* GRBL answers "?" at once, so the report and the terminator of a         *)
(* command arrive in either order.  got lists the commands whose reply     *)
(* lines the method has read.                                              *)
(***************************************************************************)
Exchanger == {1}
Poller == {2}
\* the status reports one exchange reads before its timeout
MaxReports == 2

IsQuery(e) == e.cmd = StatusQuery

grblFrame == <<state, errVars, linkVars, bgVars, posVars, endVars, cfgVars, progVars,
               serial_lock, rtask>>

\* _send_command lines 257-266: the write of the command
GrblSendCommand(c, cmd) ==
    /\ CallIdle(c) /\ serial_open
    /\ inflight' = Written(inflight, CallerTask(c), cmd)
    /\ call' = [call EXCEPT ![c] = [op |-> "grbl_send", pc |-> "read", cmd |-> cmd, got |-> <<>>]]
    /\ UNCHANGED grblFrame

\* _read_response lines 282-296: readline takes the reply line of e; the line
\* of a command is its terminator (ok, error, ALARM) and ends the loop, a
\* status report is kept and the loop goes on
GrblReadLine(c, e) ==
    /\ call[c].op = "grbl_send" /\ call[c].pc = "read"
    /\ e \in inflight /\ e.live
    /\ IsQuery(e) => Len(call[c].got) < MaxReports
    /\ inflight' = inflight \ {e}
    /\ call' = [call EXCEPT ![c].got = Append(@, e),
                            ![c].pc = IF IsQuery(e) THEN "read" ELSE "ret"]
    /\ UNCHANGED grblFrame

\* _read_response lines 300-302: the timeout
GrblReadTimeout(c) ==
    /\ call[c].op = "grbl_send" /\ call[c].pc = "read"
    /\ inflight' = Abandoned(inflight, CallerTask(c))
    /\ call' = [call EXCEPT ![c].pc = "ret"]
    /\ UNCHANGED grblFrame

\* get_status lines 347-355: the write of "?"
GrblGetStatus(c) ==
    /\ CallIdle(c) /\ serial_open
    /\ inflight' = Written(inflight, CallerTask(c), StatusQuery)
    /\ call' = [call EXCEPT ![c] = [op |-> "get_status", pc |-> "sleep", got |-> <<>>]]
    /\ UNCHANGED grblFrame

\* get_status lines 356-361: after the sleep, one readline if anything waits
GrblGetStatusRead(c, e) ==
    /\ call[c].op = "get_status" /\ call[c].pc = "sleep"
    /\ e \in inflight /\ e.live
    /\ inflight' = inflight \ {e}
    /\ call' = [call EXCEPT ![c].got = <<e>>, ![c].pc = "ret"]
    /\ UNCHANGED grblFrame

\* get_status lines 356-357: nothing waits after the sleep
GrblGetStatusNothing(c) ==
    /\ call[c].op = "get_status" /\ call[c].pc = "sleep"
    /\ inflight' = Abandoned(inflight, CallerTask(c))
    /\ call' = [call EXCEPT ![c].pc = "ret"]
    /\ UNCHANGED grblFrame

InitGrbl ==
    /\ Connected
    /\ use_grbl = TRUE
    /\ DefaultConfig
    /\ NoProgram
    /\ call = [c \in Callers |-> IdleCall]

GrblCommands == {PlainCmd("G0"), PlainCmd("G1"), PlainCmd("$H"), PlainCmd("M3"), PlainCmd("M5")}

NextGrbl ==
    \/ \E c \in Exchanger, cmd \in GrblCommands : GrblSendCommand(c, cmd)
    \/ \E c \in Exchanger, e \in inflight : GrblReadLine(c, e)
    \/ \E c \in Exchanger : GrblReadTimeout(c)
    \/ \E c \in Poller : GrblGetStatus(c)
    \/ \E c \in Poller, e \in inflight : GrblGetStatusRead(c, e)
    \/ \E c \in Poller : GrblGetStatusNothing(c)
    \/ \E c \in Callers : Return(c)
    \/ ResponseExpires

SpecGrbl == InitGrbl /\ [][NextGrbl]_vars

ExchangeOpen == \E c \in Exchanger : call[c].op = "grbl_send" /\ call[c].pc = "read"

\* C39: a status query never races with a command exchange: "?" is never
\* written while an exchange waits for its terminator, the reader of the
\* exchange never takes the status report, and get_status never takes the
\* reply of the command.
C39_QueryNeverRacesExchange ==
    [][/\ (\E c \in Poller : GrblGetStatus(c)) => ~ExchangeOpen
       /\ \A c \in Exchanger, e \in inflight : GrblReadLine(c, e) => ~IsQuery(e)
       /\ \A c \in Poller, e \in inflight : GrblGetStatusRead(c, e) => IsQuery(e)]_vars

\* the parts of C39 about the replies, the one after the other
C39_ReaderLeavesReport ==
    \A c \in Exchanger :
        call[c].op = "grbl_send" => \A j \in DOMAIN call[c].got : ~IsQuery(call[c].got[j])

C39_QueryLeavesReply ==
    \A c \in Poller :
        call[c].op = "get_status" => \A j \in DOMAIN call[c].got : IsQuery(call[c].got[j])

(***************************************************************************)
(* _set_state with its callback.  The upstream caller registers            *)
(* on_state_change and keeps what it was called with: notes, the pairs     *)
(* (old, new) in order, in the record of the caller next to the state it   *)
(* asked for last and the number of its updates.  State updates are        *)
(* _set_state(new) and _set_error, which calls _set_state(ALARM).          *)
(***************************************************************************)
DeviceStates ==
    {"disconnected", "connecting", "idle", "running", "paused", "alarm", "homing",
     "probing", "jog"}
MaxNotes == 3
\* the updates of one sequence
MaxCalls == 4

Note(old, new) == [old |-> old, new |-> new]

\* a _set_state that calls on_state_change on every update
NotifyAlways(old, new, notes) == Append(notes, Note(old, new))

\* _set_state lines 216-220: the calls of on_state_change so far
Notify(old, new, notes) == IF old # new THEN Append(notes, Note(old, new)) ELSE notes

Observing(c) == call[c].op = "_set_state"
NotesOf(c) == IF Observing(c) THEN call[c].notes ELSE <<>>
CallsOf(c) == IF Observing(c) THEN call[c].calls ELSE 0

stateFrame == <<linkVars, bgVars, posVars, endVars, cfgVars, progVars, gateVars, rtask>>

\* _set_state(new) with on_state_change registered
SetStateCall(c, new) ==
    /\ CallIdle(c) \/ Observing(c)
    /\ Len(Notify(state, new, NotesOf(c))) <= MaxNotes /\ CallsOf(c) < MaxCalls
    /\ state' = SetState(new)
    /\ call' = [call EXCEPT ![c] =
                  [op |-> "_set_state", pc |-> "ret", arg |-> new, calls |-> CallsOf(c) + 1,
                   notes |-> Notify(state, new, NotesOf(c))]]
    /\ UNCHANGED <<errVars, stateFrame>>

\* _set_error(message) with on_state_change registered
SetErrorNotified(c, msg) ==
    /\ CallIdle(c) \/ Observing(c)
    /\ Len(Notify(state, "alarm", NotesOf(c))) <= MaxNotes /\ CallsOf(c) < MaxCalls
    /\ SetError(msg)
    /\ state' = SetErrorState
    /\ call' = [call EXCEPT ![c] =
                  [op |-> "_set_state", pc |-> "ret", arg |-> "alarm", calls |-> CallsOf(c) + 1,
                   notes |-> Notify(state, "alarm", NotesOf(c))]]
    /\ UNCHANGED stateFrame

InitState ==
    /\ Constructed
    /\ use_grbl = FALSE
    /\ DefaultConfig
    /\ NoProgram
    /\ call = [c \in Callers |-> IdleCall]

NextState ==
    \/ \E c \in Operator, new \in DeviceStates : SetStateCall(c, new)
    \/ \E c \in Operator, msg \in TestMessages : SetErrorNotified(c, msg)

SpecState == InitState /\ [][NextState]_vars

\* the notes chain from Disconnected to the current state, none with old = new
NotesChain(notes) ==
    /\ \A j \in DOMAIN notes : notes[j].old # notes[j].new
    /\ notes # <<>> => notes[1].old = "disconnected"
    /\ \A j \in DOMAIN notes : j > 1 => notes[j].old = notes[j - 1].new
    /\ state = IF notes = <<>> THEN "disconnected" ELSE notes[Len(notes)].new

\* an update adds the note (state before, state after) if the state changes,
\* and no note if it does not
NotedExactly(c) ==
    NotesOf(c)' = IF state' # state THEN Append(NotesOf(c), Note(state, state'))
                  ELSE NotesOf(c)

\* C40: over any sequence of state updates on_state_change is called exactly
\* when the state changes, with the state before and the state after: never
\* with old = new, each old the new of the call before (Disconnected for the
\* first), and the current state is the new of the last call.
C40_CallbackFollowsState ==
    /\ [](\A c \in Operator : NotesChain(NotesOf(c)))
    /\ [][\A c \in Operator : NotedExactly(c)]_vars

\* three updates, one of them to the state the device was in: two notes
C40_Witness ==
    \E c \in Operator :
        /\ Observing(c) /\ call[c].calls = 3 /\ Len(call[c].notes) = 2
        /\ call[c].notes[2].new = state
        /\ call[c].notes[1].new # "alarm" /\ state = "alarm"

====
